---- MODULE Spec2Model ----
(***************************************************************************)
(* Model of the MCP bridge: the orchestrator loop (index.ts register), the *)
(* synchronous discovery handshake (discovery.ts), token resolution and    *)
(* the tools/call round trip (bridge.ts), with the credential store        *)
(* (token-store.ts) as the state the resolver reads.                       *)
(***************************************************************************)
EXTENDS Integers, Sequences, FiniteSets, TLC

\* ------------------------------------------------------------------ bounds
NumServers == 2
MaxPages == 2
MaxCalls == 2
MaxNow == 1
MaxWrites == 2
MaxLines == 4
MaxMinutes == 5

\* ------------------------------------------------- JavaScript-level values
None == "undefined"
Null == "null"
Empty == ""

\* if (v) on a value that is a string, undefined or null
Truthy(v) == v \notin {None, Null, Empty}

\* v ?? d
Coalesce(v, d) == IF v \in {None, Null} THEN d ELSE v

Min(a, b) == IF a <= b THEN a ELSE b

\* ------------------------------------------------- response decoder (sse.ts)
\* a text is a sequence of one-character strings
IsSpace(ch) == ch \in {" ", "\n", "\r", "\t"}

RECURSIVE TrimStart(_)
TrimStart(s) ==
  IF s = <<>> THEN s
  ELSE IF IsSpace(Head(s)) THEN TrimStart(Tail(s))
  ELSE s

RECURSIVE TrimEnd(_)
TrimEnd(s) ==
  IF s = <<>> THEN s
  ELSE IF IsSpace(s[Len(s)]) THEN TrimEnd(SubSeq(s, 1, Len(s) - 1))
  ELSE s

\* String.prototype.trim
Trim(s) == TrimEnd(TrimStart(s))

\* String.prototype.startsWith
StartsWith(s, prefix) ==
  Len(s) >= Len(prefix) /\ SubSeq(s, 1, Len(prefix)) = prefix

\* s.slice(n)
SliceFrom(s, n) == SubSeq(s, n + 1, Len(s))

\* s.split("\n"): cur is the line being read, acc the lines read so far
RECURSIVE SplitLines(_, _, _)
SplitLines(s, cur, acc) ==
  IF s = <<>> THEN Append(acc, cur)
  ELSE IF Head(s) = "\n" THEN SplitLines(Tail(s), <<>>, Append(acc, cur))
  ELSE SplitLines(Tail(s), Append(cur, Head(s)), acc)

Split(s) == SplitLines(s, <<>>, <<>>)

\* lines.join("\n")
RECURSIVE Join(_)
Join(lines) ==
  IF lines = <<>> THEN <<>>
  ELSE IF Len(lines) = 1 THEN lines[1]
  ELSE lines[1] \o <<"\n">> \o Join(Tail(lines))

EventMessage == <<"e", "v", "e", "n", "t", ":", " ", "m", "e", "s", "s", "a", "g", "e">>
EventMessageNoSpace == <<"e", "v", "e", "n", "t", ":", "m", "e", "s", "s", "a", "g", "e">>
DataPrefix == <<"d", "a", "t", "a", ":">>

\* stripped === "event: message" || stripped === "event:message"
IsMessageEvent(stripped) == stripped = EventMessage \/ stripped = EventMessageNoSpace

\* an accumulator that survives a new message event
OnMessageEvent_keep(dataLines) == dataLines

\* dataLines = [] at an event: message line
OnMessageEvent(dataLines) == <<>>

\* the prefix left on the collected line
DataPayload_keepPrefix(stripped) == Trim(stripped)

\* stripped.slice(5).trim()
DataPayload(stripped) == Trim(SliceFrom(stripped, Len(DataPrefix)))

\* a test that takes a line starting with data, colon or not, for a data line
IsDataLine_noColon(stripped) == StartsWith(stripped, <<"d", "a", "t", "a">>)

\* stripped.startsWith("data:")
IsDataLine(stripped) == StartsWith(stripped, DataPrefix)

\* the for loop over the lines, from line i on: the dataLines and the
\* inMessageEvent flag it ends with
RECURSIVE CollectData(_, _, _, _)
CollectData(lines, i, dataLines, inMessageEvent) ==
  IF i > Len(lines)
    THEN [dataLines |-> dataLines, inMessageEvent |-> inMessageEvent]
  ELSE LET stripped == Trim(lines[i])
       IN  IF IsMessageEvent(stripped)
             THEN CollectData(lines, i + 1, OnMessageEvent(dataLines), TRUE)
           ELSE IF stripped = <<>>
             THEN CollectData(lines, i + 1, dataLines, inMessageEvent)
           ELSE IF IsDataLine(stripped)
             THEN LET inEvent == inMessageEvent \/ dataLines = <<>>
                  IN  CollectData(lines, i + 1,
                                  IF inEvent THEN Append(dataLines, DataPayload(stripped))
                                             ELSE dataLines,
                                  inEvent)
           ELSE CollectData(lines, i + 1, dataLines, inMessageEvent)

\* a fallback that hands back the input as it came
NoDataResult_untrimmed(raw, trimmed) == raw

\* the fallback: return trimmed
NoDataResult(raw, trimmed) == trimmed

\* the framing looked at before the plain-JSON check
parseSseResponse_framingFirst(raw) ==
  LET trimmed == Trim(raw)
      dataLines == CollectData(Split(trimmed), 1, <<>>, FALSE).dataLines
  IN  IF Len(dataLines) > 0 THEN Join(dataLines)
      ELSE IF StartsWith(trimmed, <<"{">>) THEN trimmed
      ELSE NoDataResult(raw, trimmed)

parseSseResponse(raw) ==
  LET trimmed == Trim(raw)
      dataLines == CollectData(Split(trimmed), 1, <<>>, FALSE).dataLines
  IN  IF StartsWith(trimmed, <<"{">>) THEN trimmed
      ELSE IF Len(dataLines) > 0 THEN Join(dataLines)
      ELSE NoDataResult(raw, trimmed)

\* the lines response bodies are made of: the text of the line, what the
\* line is, and for a data line the payload it carries (payload: without the
\* prefix and the whitespace around it; oneSpace: without the prefix and one
\* space after it)
LineShapes ==
  << [text |-> <<>>, kind |-> "blank", payload |-> <<>>, oneSpace |-> <<>>],
     [text |-> EventMessage, kind |-> "message", payload |-> <<>>, oneSpace |-> <<>>],
     [text |-> EventMessageNoSpace \o <<"\r">>, kind |-> "message",
      payload |-> <<>>, oneSpace |-> <<>>],
     [text |-> <<"e", "v", "e", "n", "t", ":", " ", "c">>, kind |-> "other",
      payload |-> <<>>, oneSpace |-> <<>>],
     [text |-> DataPrefix \o <<" ", "a">>, kind |-> "data",
      payload |-> <<"a">>, oneSpace |-> <<"a">>],
     [text |-> <<" ">> \o DataPrefix \o <<"b">>, kind |-> "data",
      payload |-> <<"b">>, oneSpace |-> <<"b">>],
     [text |-> DataPrefix \o <<" ", " ", "a", " ", "b", "\r">>, kind |-> "data",
      payload |-> <<"a", " ", "b">>, oneSpace |-> <<" ", "a", " ", "b">>],
     [text |-> DataPrefix, kind |-> "data", payload |-> <<>>, oneSpace |-> <<>>],
     [text |-> DataPrefix \o <<" ", " ", "\r">>, kind |-> "data", payload |-> <<>>,
      oneSpace |-> <<" ", "\r">>],
     [text |-> <<"d", "a", "t", "a">>, kind |-> "other", payload |-> <<>>, oneSpace |-> <<>>],
     [text |-> <<"{", "a">>, kind |-> "brace", payload |-> <<>>, oneSpace |-> <<>>] >>

\* response bodies of up to MaxLines lines, each named by its line shapes
SseInputs == UNION {[1..n -> 1..Len(LineShapes)] : n \in 0..MaxLines}

\* the body as the server sends it
RawOf(input) == Join([i \in 1..Len(input) |-> LineShapes[input[i]].text])

\* ------------------------------------------------------------ configuration
Prefixes == {"p", "q"}

\* a URL text is a sequence of pieces: the marks "://", "/", "?" and "#" are
\* pieces of their own, every other piece is a run of other characters
UrlMarks == {"://", "/", "?", "#"}

\* config.ts: "MCP endpoint path (defaults to "/mcp")"
DEFAULT_MCP_PATH == <<"/", "mcp">>

\* a path that is undefined
NoPath == <<None>>

\* `${server.url}${server.path ?? DEFAULT_MCP_PATH}`
Endpoint(server) ==
  server.url \o (IF server.path = NoPath THEN DEFAULT_MCP_PATH ELSE server.path)

\* position of the first piece equal to mark, Len(s) + 1 when there is none
RECURSIVE IndexOf(_, _, _)
IndexOf(s, mark, i) ==
  IF i > Len(s) THEN i
  ELSE IF s[i] = mark THEN i
  ELSE IndexOf(s, mark, i + 1)

\* new URL(url) throws on a text that does not start with a scheme
UrlParses(s) ==
  /\ Len(s) >= 3
  /\ s[1] \in {"http", "https"}
  /\ s[2] = "://"
  /\ s[3] \notin UrlMarks

InvalidUrlText == <<"(invalid URL)">>

\* a sanitizer that prints the URL as it parsed it
sanitizeUrlForLog_keepSearch(url) ==
  IF ~UrlParses(url) THEN InvalidUrlText
  ELSE LET hashAt == IndexOf(url, "#", 1)
           queryAt == Min(IndexOf(url, "?", 1), hashAt)
           origin == SubSeq(url, 1, 3)
           pathname == IF queryAt > 4 THEN SubSeq(url, 4, queryAt - 1) ELSE <<"/">>
           search == SubSeq(url, queryAt, hashAt - 1)
           hash == SubSeq(url, hashAt, Len(url))
           printed == origin \o pathname \o search \o hash
       IN  IF printed[Len(printed)] = "/" THEN SubSeq(printed, 1, Len(printed) - 1)
           ELSE printed

\* parsed.search = ""; parsed.toString().replace(/\/$/, ""), or the
\* placeholder when new URL throws
sanitizeUrlForLog(url) ==
  IF ~UrlParses(url) THEN InvalidUrlText
  ELSE LET hashAt == IndexOf(url, "#", 1)
           queryAt == Min(IndexOf(url, "?", 1), hashAt)
           origin == SubSeq(url, 1, 3)
           pathname == IF queryAt > 4 THEN SubSeq(url, 4, queryAt - 1) ELSE <<"/">>
           hash == SubSeq(url, hashAt, Len(url))
           printed == origin \o pathname \o hash
       IN  IF printed[Len(printed)] = "/" THEN SubSeq(printed, 1, Len(printed) - 1)
           ELSE printed

\* the (url, path) pairs servers are configured with: what the pair is, the
\* endpoint it makes with its query taken out, and what the log may show
UrlShapes ==
  << [url |-> <<"http", "://", "h">>, path |-> NoPath, kind |-> "plain",
      stripped |-> <<"http", "://", "h", "/", "mcp">>,
      safe |-> <<"http", "://", "h", "/", "mcp">>],
     [url |-> <<"https", "://", "h">>, path |-> <<"/", "mcp", "?", "key=s">>,
      kind |-> "query",
      stripped |-> <<"https", "://", "h", "/", "mcp">>,
      safe |-> <<"https", "://", "h", "/", "mcp">>],
     [url |-> <<"h">>, path |-> NoPath, kind |-> "no scheme",
      stripped |-> <<"h", "/", "mcp">>,
      safe |-> InvalidUrlText],
     [url |-> <<"http", "://", "h", "?", "key=s">>, path |-> NoPath, kind |-> "query",
      stripped |-> <<"http", "://", "h">>,
      safe |-> <<"http", "://", "h">>],
     [url |-> <<"http", "://", "h">>, path |-> <<"/", "?", "key=s", "#", "f">>,
      kind |-> "query",
      stripped |-> <<"http", "://", "h", "/", "#", "f">>,
      safe |-> <<"http", "://", "h", "/", "#", "f">>],
     [url |-> <<"h">>, path |-> <<"/", "mcp", "?", "key=s">>, kind |-> "no scheme",
      stripped |-> <<"h", "/", "mcp">>,
      safe |-> InvalidUrlText],
     [url |-> <<"http", "://", "h">>, path |-> <<"/">>, kind |-> "plain",
      stripped |-> <<"http", "://", "h", "/">>,
      safe |-> <<"http", "://", "h">>] >>

\* the (prefix, token, url shape) triples the configured servers are drawn from
ServerShapes == {<<"p", "st", 1>>, <<"q", None, 2>>, <<"p", Empty, 3>>}

\* one server under every url shape
UrlServerShapes == {<<"p", "st", u>> : u \in 1..Len(UrlShapes)}

\* ServerConfig as parseBridgeConfig leaves it (name, url, prefix, token, path)
ServerConfigOf(i, sh) ==
  [name |-> i, prefix |-> sh[1], token |-> sh[2],
   url |-> UrlShapes[sh[3]].url, path |-> UrlShapes[sh[3]].path]

ServerConfigSet(n) == {ServerConfigOf(i, sh) : i \in 1..n, sh \in ServerShapes}

\* config.servers with n entries; entry i is named i
ServerLists(n) ==
  {s \in [1..n -> ServerConfigSet(n)] : \A i \in 1..n : s[i].name = i}

\* `${server.prefix}_${mcpTool.name}`
PrefixedName(prefix, toolName) == <<prefix, "_", toolName>>

\* ------------------------------------------------------- discovery: values
PageTools == {<<>>, <<"t1">>, <<"t2", "t1">>}
CursorValues == {None, Empty, "c1"}

HeaderLine(n, v) == [name |-> n, value |-> v]

\* line.toLowerCase() on the header names that occur
LowerName(n) ==
  CASE n = "Mcp-Session-Id" -> "mcp-session-id"
    [] n = "MCP-SESSION-ID" -> "mcp-session-id"
    [] n = "mcp-session-id" -> "mcp-session-id"
    [] OTHER -> "content-type"

\* raw response header blocks the server may answer with
HeaderBlocks ==
  { <<>>,
    <<HeaderLine("Content-Type", "application/json")>>,
    <<HeaderLine("Content-Type", "application/json"), HeaderLine("Mcp-Session-Id", "s1")>>,
    <<HeaderLine("mcp-session-id", "s2")>>,
    <<HeaderLine("MCP-SESSION-ID", "s1"), HeaderLine("Mcp-Session-Id", "s2")>>,
    <<HeaderLine("Mcp-Session-Id", Empty)>> }

RECURSIVE FirstSessionLine(_, _)
FirstSessionLine(hs, i) ==
  IF i > Len(hs) THEN None
  ELSE IF LowerName(hs[i].name) = "mcp-session-id" THEN hs[i].value
  ELSE FirstSessionLine(hs, i + 1)

\* extractSessionId: value of the first header line named mcp-session-id
\* (any letter case), undefined when there is none
extractSessionId(rawHeaders) == FirstSessionLine(rawHeaders, 1)

\* curlPost adds the session header only for a truthy session id
SessionHeader(sid) == IF Truthy(sid) THEN sid ELSE None

\* Authorization: Bearer <token>, only for a truthy token
AuthHeader(token) == IF Truthy(token) THEN token ELSE None

\* JSON-RPC error member of a parsed body
ErrorValues ==
  { [kind |-> "absent", message |-> None],
    [kind |-> "falsy", message |-> None],
    [kind |-> "object", message |-> "boom"],
    [kind |-> "object", message |-> None] }

ErrorTruthy(e) == e.kind = "object"

\* error.message ?? JSON.stringify(error)
ErrorText(e) == Coalesce(e.message, "JSON.stringify(error)")

\* no body came back
NoDoc == [json |-> "none", error |-> [kind |-> "absent", message |-> None],
          toolsKind |-> "absent", tools |-> <<>>, nextCursor |-> None]

\* JSON.parse(parseSseResponse(body)) of a tools/list body
ListDocs ==
  { NoDoc,
    [json |-> "unparseable", error |-> [kind |-> "absent", message |-> None],
     toolsKind |-> "absent", tools |-> <<>>, nextCursor |-> None],
    [json |-> "null", error |-> [kind |-> "absent", message |-> None],
     toolsKind |-> "absent", tools |-> <<>>, nextCursor |-> None] }
  \cup
  [json : {"object"}, error : ErrorValues, toolsKind : {"absent", "nonarray"},
   tools : {<<>>}, nextCursor : {None, "c1"}]
  \cup
  [json : {"object"}, error : ErrorValues, toolsKind : {"array"},
   tools : PageTools, nextCursor : CursorValues]

\* a curlPost outcome: execFileSync throws, or headers and body come back
CurlThrows == [threw |-> TRUE, headers |-> <<>>]
CurlReturns == [threw : {FALSE}, headers : HeaderBlocks]
CurlOutcomes == {CurlThrows} \cup CurlReturns

\* the answers drawn on when several servers are discovered in a row
FewOutcomes == {CurlThrows, [threw |-> FALSE, headers |-> <<>>],
                [threw |-> FALSE, headers |-> <<HeaderLine("mcp-session-id", "s2")>>]}
FewDocs ==
  { NoDoc,
    [json |-> "object", error |-> [kind |-> "object", message |-> "boom"],
     toolsKind |-> "absent", tools |-> <<>>, nextCursor |-> None],
    [json |-> "object", error |-> [kind |-> "absent", message |-> None],
     toolsKind |-> "array", tools |-> <<"t1">>, nextCursor |-> None],
    [json |-> "object", error |-> [kind |-> "absent", message |-> None],
     toolsKind |-> "array", tools |-> <<"t2", "t1">>, nextCursor |-> "c1"] }

\* JSON.parse(parseSseResponse(body)) of an initialize body
InitDocs ==
  { [json |-> "unparseable", error |-> [kind |-> "absent", message |-> None],
     toolsKind |-> "absent", tools |-> <<>>, nextCursor |-> None],
    [json |-> "null", error |-> [kind |-> "absent", message |-> None],
     toolsKind |-> "absent", tools |-> <<>>, nextCursor |-> None],
    [json |-> "object", error |-> [kind |-> "object", message |-> "boom"],
     toolsKind |-> "absent", tools |-> <<>>, nextCursor |-> None],
    [json |-> "object", error |-> [kind |-> "absent", message |-> None],
     toolsKind |-> "absent", tools |-> <<>>, nextCursor |-> None] }

\* an initialize body with a result and no error
FewInitDocs ==
  { [json |-> "object", error |-> [kind |-> "absent", message |-> None],
     toolsKind |-> "absent", tools |-> <<>>, nextCursor |-> None] }

\* the notification has not been sent
NotSent == [sent |-> FALSE, threw |-> FALSE, status |-> 0, session |-> None]

\* how the notification request ends: curlPost throws, or an answer with
\* an HTTP status and headers comes back
FewNotifyOutcomes ==
  { [threw |-> TRUE, headers |-> <<>>, status |-> 0],
    [threw |-> FALSE, headers |-> <<>>, status |-> 202] }
NotifyOutcomes ==
  FewNotifyOutcomes \cup
  { [threw |-> FALSE, headers |-> <<>>, status |-> 500],
    [threw |-> FALSE, headers |-> <<HeaderLine("mcp-session-id", "s2")>>, status |-> 500] }

\* tools/list bodies of every failing kind, and two that list tools
FailDocs ==
  FewDocs \cup
  { [json |-> "unparseable", error |-> [kind |-> "absent", message |-> None],
     toolsKind |-> "absent", tools |-> <<>>, nextCursor |-> None],
    [json |-> "object", error |-> [kind |-> "absent", message |-> None],
     toolsKind |-> "nonarray", tools |-> <<>>, nextCursor |-> None] }

NoError == [kind |-> "none", text |-> None, name |-> 0, url |-> <<>>]

\* new Error(`Failed to discover tools from ${server.name} (${safeUrl}): ${msg}`)
WrappedError(server, kind, text) ==
  [kind |-> kind, text |-> text, name |-> server.name,
   url |-> sanitizeUrlForLog(Endpoint(server))]

\* the error assertCurlAvailable throws (not wrapped: raised before the try)
CurlMissingError == [kind |-> "curl is not available", text |-> None, name |-> 0,
                     url |-> <<>>]

\* a request of the discovery sequence as curlPost sends it; id is "init-1",
\* "int" (the integer in num) or undefined (a notification)
NoRequest == [srv |-> 0, method |-> "none", id |-> None, num |-> 0,
              cursor |-> None, session |-> None, auth |-> None]

\* a request that never carries a cursor
DiscoveryRequest_noCursor(server, method, id, num, cur, sid) ==
  [srv |-> server.name, method |-> method, id |-> id, num |-> num,
   cursor |-> None,
   session |-> SessionHeader(sid), auth |-> AuthHeader(server.token)]

DiscoveryRequest(server, method, id, num, cur, sid) ==
  [srv |-> server.name, method |-> method, id |-> id, num |-> num,
   cursor |-> IF Truthy(cur) THEN cur ELSE None,
   session |-> SessionHeader(sid), auth |-> AuthHeader(server.token)]

\* DiscoveryResult of one server, or the failure register() caught for it
PendingResult == [status |-> "pending", tools |-> <<>>, sessionId |-> None, err |-> NoError]
FailedResult(e) == [status |-> "failed", tools |-> <<>>, sessionId |-> None, err |-> e]
OkResult(tools, sid) == [status |-> "ok", tools |-> tools, sessionId |-> sid, err |-> NoError]

\* ------------------------------------------------------------------- state
VARIABLES
  servers,          \* config.servers
  storeOk,          \* register(): tokenStore is defined (new TokenStore did not throw)
  curlChecked,      \* discovery.ts module flag
  srvIdx,           \* position of register()'s loop over config.servers
  dpc,              \* position inside the loop body / discoverToolsSync
  sessionId,        \* discoverToolsSync local
  cursor,           \* discoverToolsSync local
  requestId,        \* discoverToolsSync local
  allTools,         \* discoverToolsSync local
  lastReq,          \* the request most recently handed to curl
  disc,             \* per server: what discoverToolsSync returned or threw
  registered,       \* tool factories handed to api.registerTool, in order (each
                    \* tagged with initSid and seenSid of its discovery)
  registeredNames,  \* register() local set
  probes,           \* number of curl --version probes run so far
  initSid,          \* this discovery: session id seen on the initialize response
  seenSid,          \* this discovery: last truthy session id seen on any response
  pageLog,          \* tools arrays of the tools/list pages received, in order
  lastDoc,          \* parsed body of the tools/list page received last
  initDoc,          \* this discovery: parsed body of the initialize response
  notified,         \* this discovery: how the notifications/initialized request ended
  lastHeader,       \* this discovery: what extractSessionId gave for the response
                    \* whose headers were read last
  tokenStore,       \* tokens table: (user, service) -> record
  now,              \* Math.floor(Date.now() / 1000)
  writes,           \* number of store mutations so far
  calls,            \* bridged tool instances and their execute() call
  sseInput,         \* a response body, as the shapes of its lines
  sseOut,           \* what parseSseResponse returned for it
  ssePc,            \* whether the body has been decoded
  sseFlag,          \* parseSseResponse local inMessageEvent when its loop ended
  cache,            \* BillingClient.cache, in insertion order
  dateNow,          \* Date.now(), in milliseconds
  hooks             \* invocations of the tier-gate hooks

discVars == <<curlChecked, srvIdx, dpc, sessionId, cursor, requestId, allTools,
              lastReq, disc, registered, registeredNames, probes, initSid,
              seenSid, pageLog, lastDoc, initDoc, notified, lastHeader>>
cfgVars == <<servers, storeOk>>
storeVars == <<tokenStore, now, writes>>
sseVars == <<sseInput, sseOut, ssePc, sseFlag>>
gateVars == <<cache, dateNow, hooks>>
vars == <<servers, storeOk, curlChecked, srvIdx, dpc, sessionId, cursor,
          requestId, allTools, lastReq, disc, registered, registeredNames,
          probes, initSid, seenSid, pageLog, lastDoc, initDoc, notified,
          lastHeader, tokenStore, now, writes,
          calls, sseInput, sseOut, ssePc, sseFlag, cache, dateNow, hooks>>

\* --------------------------------------------------- orchestrator, discovery
Server == servers[srvIdx]

\* discoverToolsSync's locals go out of scope
DropLocals ==
  /\ sessionId' = None
  /\ cursor' = None
  /\ requestId' = 1
  /\ allTools' = <<>>

\* leaving the loop body for the next server (or the end of register())
Advance ==
  /\ srvIdx' = srvIdx + 1
  /\ dpc' = IF srvIdx = Len(servers) THEN "done" ELSE "start"
  /\ DropLocals
  /\ initSid' = None
  /\ seenSid' = None
  /\ pageLog' = <<>>
  /\ initDoc' = NoDoc
  /\ notified' = NotSent
  /\ lastHeader' = None

\* a catch that gives up on the remaining servers
CatchAndContinue_abort(e) ==
  /\ disc' = [disc EXCEPT ![srvIdx] = FailedResult(e)]
  /\ srvIdx' = srvIdx + 1
  /\ dpc' = "done"
  /\ DropLocals
  /\ initSid' = None
  /\ seenSid' = None
  /\ pageLog' = <<>>
  /\ initDoc' = NoDoc
  /\ notified' = NotSent
  /\ lastHeader' = None

\* a catch that runs the failed discovery again
CatchAndContinue_retry(e) ==
  /\ disc' = disc
  /\ srvIdx' = srvIdx
  /\ dpc' = "init"
  /\ DropLocals
  /\ initSid' = None
  /\ seenSid' = None
  /\ pageLog' = <<>>
  /\ initDoc' = NoDoc
  /\ notified' = NotSent
  /\ lastHeader' = None

\* a catch that starts the same server's discovery over until it succeeds
CatchAndContinue_startOver(e) ==
  /\ disc' = disc
  /\ srvIdx' = srvIdx
  /\ dpc' = "start"
  /\ DropLocals
  /\ initSid' = None
  /\ seenSid' = None
  /\ pageLog' = <<>>
  /\ initDoc' = NoDoc
  /\ notified' = NotSent
  /\ lastHeader' = None

\* register(): catch (err) { api.logger.error(...); continue; }
CatchAndContinue(e) ==
  /\ disc' = [disc EXCEPT ![srvIdx] = FailedResult(e)]
  /\ Advance

\* a check that runs curl --version every time
ProbeNeeded_always(checked) == TRUE

\* if (curlChecked) return;
ProbeNeeded(checked) == ~checked

\* assertCurlAvailable() at the head of discoverToolsSync
AssertCurl(probeOk) ==
  /\ dpc = "start"
  /\ IF ~ProbeNeeded(curlChecked)
       THEN /\ probeOk
            /\ dpc' = "init"
            /\ UNCHANGED <<curlChecked, probes, srvIdx, sessionId, cursor,
                           requestId, allTools, disc, initSid, seenSid, pageLog,
                           initDoc, notified, lastHeader>>
       ELSE /\ probes' = probes + 1
            /\ IF probeOk
                 THEN /\ curlChecked' = TRUE
                      /\ dpc' = "init"
                      /\ UNCHANGED <<srvIdx, sessionId, cursor, requestId,
                                     allTools, disc, initSid, seenSid, pageLog,
                                     initDoc, notified, lastHeader>>
                 ELSE /\ CatchAndContinue(CurlMissingError)
                      /\ UNCHANGED curlChecked
  /\ lastDoc' = NoDoc
  /\ UNCHANGED <<lastReq, registered, registeredNames>>
  /\ UNCHANGED <<cfgVars, sseVars, gateVars, storeVars, calls>>

\* an initialize body that must parse and carry no error
InitBodyOutcome_strict(doc) ==
  IF doc.json = "unparseable" THEN "thrown"
  ELSE IF doc.json = "null" THEN "thrown"
  ELSE IF ErrorTruthy(doc.error) THEN "thrown"
  ELSE "parsed"

\* try { initJson = JSON.parse(parseSseResponse(initResp.body));
\*       if (initJson.error) { } } catch { }
InitBodyOutcome(doc) ==
  IF doc.json = "unparseable" THEN "caught"
  ELSE IF doc.json = "null" THEN "caught"
  ELSE IF ErrorTruthy(doc.error) THEN "ignored"
  ELSE "parsed"

\* an initialize request whose transport failure is swallowed like the
\* notification's
InitTransportOutcome_bestEffort(out) == "returned"

\* const initResp = curlPost(endpoint, baseHeaders, initBody): inside the outer
\* try only, so a throw of execFileSync reaches the outer catch
InitTransportOutcome(out) == IF out.threw THEN "thrown" ELSE "returned"

\* step 1: the initialize request and its response
Initialize(out, doc) ==
  /\ dpc = "init"
  /\ out.threw => doc = NoDoc
  /\ ~out.threw => doc.json # "none"
  /\ lastReq' = DiscoveryRequest(Server, "initialize", "init-1", 0, None, None)
  /\ IF InitTransportOutcome(out) = "thrown"
       THEN CatchAndContinue(WrappedError(Server, "transport", None))
       ELSE IF InitBodyOutcome(doc) = "thrown"
         THEN CatchAndContinue(WrappedError(Server, "initialize", None))
       ELSE /\ sessionId' = extractSessionId(out.headers)
            /\ initSid' = extractSessionId(out.headers)
            /\ seenSid' = SessionHeader(extractSessionId(out.headers))
            /\ initDoc' = doc
            /\ lastHeader' = extractSessionId(out.headers)
            /\ dpc' = "notify"
            /\ UNCHANGED <<srvIdx, cursor, requestId, allTools, disc, pageLog,
                           notified>>
  /\ UNCHANGED <<curlChecked, probes, registered, registeredNames, lastDoc>>
  /\ UNCHANGED <<cfgVars, sseVars, gateVars, storeVars, calls>>

\* a notification whose transport failure ends the discovery
NotifyOutcome_strict(out, status) ==
  IF out.threw THEN "thrown" ELSE "sent"

\* try { curlPost(endpoint, baseHeaders, initializedBody, sessionId) } catch { }:
\* a throw is swallowed, and what came back is not looked at
NotifyOutcome(out, status) ==
  IF out.threw THEN "swallowed" ELSE "sent"

\* notifications/initialized, best effort
Notify(out, status) ==
  /\ dpc = "notify"
  /\ lastReq' = DiscoveryRequest(Server, "notifications/initialized", None, 0,
                                 None, sessionId)
  /\ IF NotifyOutcome(out, status) = "thrown"
       THEN CatchAndContinue(WrappedError(Server, "transport", None))
       ELSE /\ dpc' = "list"
            /\ notified' = [sent |-> TRUE, threw |-> out.threw, status |-> status,
                            session |-> extractSessionId(out.headers)]
            /\ UNCHANGED <<srvIdx, sessionId, cursor, requestId, allTools, disc,
                           initSid, seenSid, pageLog, initDoc, lastHeader>>
  /\ UNCHANGED <<curlChecked, registered, registeredNames, probes, lastDoc>>
  /\ UNCHANGED <<cfgVars, sseVars, gateVars, storeVars, calls>>

\* a loop that never looks at the session header of a page
RecaptureSession_keepFirst(held, rawHeaders) == held

\* a loop that takes whatever the page's headers give, a missing id included
RecaptureSession_always(held, rawHeaders) == extractSessionId(rawHeaders)

\* const respSessionId = extractSessionId(...); if (respSessionId) sessionId = respSessionId
RecaptureSession(held, rawHeaders) ==
  IF Truthy(extractSessionId(rawHeaders)) THEN extractSessionId(rawHeaders) ELSE held

\* the page lets the do-while go round again
PageContinues(doc) ==
  /\ doc.json = "object"
  /\ ~ErrorTruthy(doc.error)
  /\ doc.toolsKind = "array"
  /\ Truthy(doc.nextCursor)

\* the shape check made before the error check
PageError_shapeFirst(server, doc) ==
  IF doc.json = "unparseable" THEN WrappedError(server, "SyntaxError", None)
  ELSE IF doc.json = "null" THEN WrappedError(server, "TypeError", None)
  ELSE IF doc.toolsKind # "array"
    THEN WrappedError(server, "Unexpected tools/list response", "jsonStr.slice(0, 200)")
  ELSE IF ErrorTruthy(doc.error)
    THEN WrappedError(server, "MCP error", ErrorText(doc.error))
  ELSE NoError

\* a loop that reads a result.tools that is no array as an empty page
PageError_skipsBadShape(server, doc) ==
  IF doc.json = "unparseable" THEN WrappedError(server, "SyntaxError", None)
  ELSE IF doc.json = "null" THEN WrappedError(server, "TypeError", None)
  ELSE IF ErrorTruthy(doc.error)
    THEN WrappedError(server, "MCP error", ErrorText(doc.error))
  ELSE NoError

\* what the body of one loop iteration throws, if anything
PageError(server, doc) ==
  IF doc.json = "unparseable" THEN WrappedError(server, "SyntaxError", None)
  ELSE IF doc.json = "null" THEN WrappedError(server, "TypeError", None)
  ELSE IF ErrorTruthy(doc.error)
    THEN WrappedError(server, "MCP error", ErrorText(doc.error))
  ELSE IF doc.toolsKind # "array"
    THEN WrappedError(server, "Unexpected tools/list response", "jsonStr.slice(0, 200)")
  ELSE NoError

\* the page put in front of the catalog instead of behind it
PushAll_front(all, tools) == tools \o all

\* allTools.push(...tools)
PushAll(all, tools) == all \o tools

\* step 2: one iteration of the tools/list do-while loop
ListPage(out, doc) ==
  /\ dpc = "list"
  /\ requestId < MaxPages \/ out.threw \/ ~PageContinues(doc)
  /\ out.threw => doc = NoDoc
  /\ lastReq' = DiscoveryRequest(Server, "tools/list", "int", requestId, cursor,
                                 sessionId)
  /\ lastDoc' = doc
  /\ IF out.threw
       THEN CatchAndContinue(WrappedError(Server, "transport", None))
       ELSE IF PageError(Server, doc) # NoError
         THEN CatchAndContinue(PageError(Server, doc))
       ELSE IF Truthy(doc.nextCursor)
         THEN /\ requestId' = requestId + 1
              /\ sessionId' = RecaptureSession(sessionId, out.headers)
              /\ seenSid' = IF Truthy(extractSessionId(out.headers))
                              THEN extractSessionId(out.headers) ELSE seenSid
              /\ allTools' = PushAll(allTools, doc.tools)
              /\ pageLog' = Append(pageLog, doc.tools)
              /\ lastHeader' = extractSessionId(out.headers)
              /\ cursor' = doc.nextCursor
              /\ UNCHANGED <<srvIdx, dpc, disc, initSid, initDoc, notified>>
         ELSE /\ disc' = [disc EXCEPT ![srvIdx] =
                            OkResult(PushAll(allTools, doc.tools),
                                     RecaptureSession(sessionId, out.headers))]
              /\ seenSid' = IF Truthy(extractSessionId(out.headers))
                              THEN extractSessionId(out.headers) ELSE seenSid
              /\ pageLog' = Append(pageLog, doc.tools)
              /\ lastHeader' = extractSessionId(out.headers)
              /\ dpc' = "register"
              /\ DropLocals
              /\ UNCHANGED <<srvIdx, initSid, initDoc, notified>>
  /\ UNCHANGED <<curlChecked, probes, registered, registeredNames>>
  /\ UNCHANGED <<cfgVars, sseVars, gateVars, storeVars, calls>>

\* the factory register() builds for one discovered tool: the closure over
\* (server, mcpTool, sessionId), under the name it is registered with
ToolFactory(srv, server, mcpTool, sid) ==
  [srv |-> srv, tool |-> mcpTool, sessionId |-> sid,
   name |-> PrefixedName(server.prefix, mcpTool)]

\* register(): the for loop over the discovered tools, then the next server
RegisterTools ==
  /\ dpc = "register"
  /\ registered' = registered \o
       [i \in 1..Len(disc[srvIdx].tools) |->
          ToolFactory(srvIdx, Server, disc[srvIdx].tools[i], disc[srvIdx].sessionId)
            @@ [init |-> initSid, seen |-> seenSid]]
  /\ registeredNames' = registeredNames \cup
       {PrefixedName(Server.prefix, disc[srvIdx].tools[i]) :
          i \in 1..Len(disc[srvIdx].tools)}
  /\ Advance
  /\ lastDoc' = NoDoc
  /\ UNCHANGED <<curlChecked, probes, lastReq, disc>>
  /\ UNCHANGED <<cfgVars, sseVars, gateVars, storeVars, calls>>

\* register() with the server answering from the given outcomes and bodies
DiscoveryNext(outs, inits, notes, docs) ==
  \/ \E ok \in BOOLEAN : AssertCurl(ok)
  \/ \E out \in outs, doc \in inits \cup {NoDoc} : Initialize(out, doc)
  \/ \E note \in notes : Notify([threw |-> note.threw, headers |-> note.headers],
                                  note.status)
  \/ \E out \in outs, doc \in docs : ListPage(out, doc)
  \/ RegisterTools

\* ------------------------------------------------------- credential store
Users == {"u1", "u2"}
StoreKeys == Users \X Prefixes
EXPIRY_BUFFER_SECONDS == 60

NoRecord == [found |-> FALSE, access_token |-> None, hasExpiry |-> FALSE, expires_at |-> 0]

\* TokenInfo values handed to setToken
TokenInfos ==
  { [found |-> TRUE, access_token |-> "a1", hasExpiry |-> FALSE, expires_at |-> 0],
    [found |-> TRUE, access_token |-> "a2", hasExpiry |-> TRUE,
     expires_at |-> EXPIRY_BUFFER_SECONDS + MaxNow],
    [found |-> TRUE, access_token |-> "a1", hasExpiry |-> TRUE,
     expires_at |-> EXPIRY_BUFFER_SECONDS],
    [found |-> TRUE, access_token |-> Empty, hasExpiry |-> FALSE, expires_at |-> 0] }

\* a lookup by service alone: the row of whichever user has one
getToken_byServiceOnly(store, userId, service) ==
  IF \E u \in Users : store[<<u, service>>].found
    THEN store[<<CHOOSE u \in Users : store[<<u, service>>].found, service>>]
    ELSE NoRecord

\* TokenStore.getToken: the row keyed (userId, service), or null
getToken(store, userId, service) ==
  IF <<userId, service>> \in DOMAIN store THEN store[<<userId, service>>] ELSE NoRecord

\* a check without the buffer: expired only once the expiry time is reached
isExpired_noBuffer(record, t) ==
  IF ~record.hasExpiry THEN FALSE
  ELSE record.expires_at <= t

\* TokenStore.isExpired at clock value t
isExpired(record, t) ==
  IF ~record.hasExpiry THEN FALSE
  ELSE record.expires_at <= t + EXPIRY_BUFFER_SECONDS

\* TokenStore.setToken: insert or replace the row
SetToken(u, svc, info) ==
  /\ writes < MaxWrites
  /\ tokenStore' = [tokenStore EXCEPT ![<<u, svc>>] = info]
  /\ writes' = writes + 1
  /\ UNCHANGED <<now, calls, cfgVars, sseVars, gateVars, discVars>>

\* TokenStore.deleteToken
DeleteToken(u, svc) ==
  /\ writes < MaxWrites
  /\ tokenStore[<<u, svc>>].found
  /\ tokenStore' = [tokenStore EXCEPT ![<<u, svc>>] = NoRecord]
  /\ writes' = writes + 1
  /\ UNCHANGED <<now, calls, cfgVars, sseVars, gateVars, discVars>>

\* the clock moves on by a second
Tick ==
  /\ now < MaxNow
  /\ now' = now + 1
  /\ UNCHANGED <<tokenStore, writes, calls, cfgVars, sseVars, gateVars, discVars>>

\* --------------------------------------------------------------- identity
\* session keys, split at ":" (<<>> is an undefined key)
SessionKeys ==
  { <<>>,
    <<"agent", "main">>,
    <<"agent", "main", "telegram", "default", "direct", "u1">>,
    <<"agent", "main", "telegram", "default", "direct", "u2", "x">>,
    <<"agent", "main", "telegram", "default", "direct", Empty>>,
    <<"agent", "main", "telegram", "default", "group", "u1">>,
    <<"agent", "main", "discord", "default", "direct", "u1">> }

parseTelegramUserId(sessionKey) ==
  IF Len(sessionKey) < 6 THEN None
  ELSE IF sessionKey[3] # "telegram" \/ sessionKey[5] # "direct" THEN None
  ELSE IF ~Truthy(sessionKey[6]) THEN None
  ELSE sessionKey[6]

\* --------------------------------------------------------- token resolution
NoRefusal == [kind |-> None, service |-> None]
\* `Your ${service} token has expired. Please run /connect ${service} to re-authenticate.`
ExpiredRefusal(svc) == [kind |-> "expired", service |-> svc]
\* `No ${service} token found for your account. Please run /connect ${service} to authenticate.`
NotFoundRefusal(svc) == [kind |-> "notfound", service |-> svc]

TokenResolutionOptions(userId, hasStore, svc) ==
  [userId |-> userId, tokenStore |-> hasStore, service |-> svc]

\* an expired record treated like a missing one
resolveToken_expiredFallsBack(server, opts, store, t) ==
  LET usable == Truthy(opts.userId) /\ opts.tokenStore
      record == getToken(store, opts.userId, opts.service)
  IN  IF usable /\ record.found /\ ~isExpired(record, t)
        THEN [token |-> record.access_token, error |-> NoRefusal]
      ELSE IF Truthy(server.token)
        THEN [token |-> server.token, error |-> NoRefusal]
      ELSE IF usable /\ record.found
        THEN [token |-> None, error |-> ExpiredRefusal(opts.service)]
      ELSE IF usable
        THEN [token |-> None, error |-> NotFoundRefusal(opts.service)]
      ELSE [token |-> None, error |-> NoRefusal]

\* the static token tried before the per-user record
resolveToken_staticFirst(server, opts, store, t) ==
  LET usable == Truthy(opts.userId) /\ opts.tokenStore
      record == getToken(store, opts.userId, opts.service)
  IN  IF Truthy(server.token)
        THEN [token |-> server.token, error |-> NoRefusal]
      ELSE IF usable /\ record.found /\ isExpired(record, t)
        THEN [token |-> None, error |-> ExpiredRefusal(opts.service)]
      ELSE IF usable /\ record.found
        THEN [token |-> record.access_token, error |-> NoRefusal]
      ELSE IF usable
        THEN [token |-> None, error |-> NotFoundRefusal(opts.service)]
      ELSE [token |-> None, error |-> NoRefusal]

\* the prompt given whenever a user id is known, store or no store
resolveToken_promptsWithoutStore(server, opts, store, t) ==
  LET usable == Truthy(opts.userId) /\ opts.tokenStore
      record == getToken(store, opts.userId, opts.service)
  IN  IF usable /\ record.found /\ isExpired(record, t)
        THEN [token |-> None, error |-> ExpiredRefusal(opts.service)]
      ELSE IF usable /\ record.found
        THEN [token |-> record.access_token, error |-> NoRefusal]
      ELSE IF Truthy(server.token)
        THEN [token |-> server.token, error |-> NoRefusal]
      ELSE IF Truthy(opts.userId)
        THEN [token |-> None, error |-> NotFoundRefusal(opts.service)]
      ELSE [token |-> None, error |-> NoRefusal]

resolveToken(server, opts, store, t) ==
  LET usable == Truthy(opts.userId) /\ opts.tokenStore
      record == getToken(store, opts.userId, opts.service)
  IN  IF usable /\ record.found /\ isExpired(record, t)
        THEN [token |-> None, error |-> ExpiredRefusal(opts.service)]
      ELSE IF usable /\ record.found
        THEN [token |-> record.access_token, error |-> NoRefusal]
      ELSE IF Truthy(server.token)
        THEN [token |-> server.token, error |-> NoRefusal]
      ELSE IF usable
        THEN [token |-> None, error |-> NotFoundRefusal(opts.service)]
      ELSE [token |-> None, error |-> NoRefusal]

\* ------------------------------------------------------ tools/call: values
CallIds == 1..MaxCalls
ToolCallIds == {"call-1", "call-2"}
ParamValues == {"args-a"}

\* text.slice(0, 1000) of the body of a non-success response
MaxExcerptChars == 1000
HttpStatuses == {200, 404, 500}
BodyLengths == {0, MaxExcerptChars, MaxExcerptChars + 1}

\* response.ok
ResponseOk(status) == status >= 200 /\ status <= 299

\* a text known by its length; slice(0, n) keeps the first n characters
Slice(len, n) == Min(len, n)

\* result member of a parsed tools/call body
ResultValues ==
  { [kind |-> "absent", content |-> "absent"],
    [kind |-> "null", content |-> "absent"],
    [kind |-> "string", content |-> "absent"],
    [kind |-> "object", content |-> "absent"],
    [kind |-> "object", content |-> "null"],
    [kind |-> "object", content |-> "string"],
    [kind |-> "object", content |-> "array"] }

AbsentError == [kind |-> "absent", message |-> None]
AbsentResult == [kind |-> "absent", content |-> "absent"]

\* JSON.parse(parseSseResponse(rawText)) of a tools/call body, or the
\* exception either of them (or response.text()) raises
CallDocs ==
  { [json |-> "unreadable", error |-> AbsentError, result |-> AbsentResult],
    [json |-> "unparseable", error |-> AbsentError, result |-> AbsentResult],
    [json |-> "null", error |-> AbsentError, result |-> AbsentResult],
    [json |-> "primitive", error |-> AbsentError, result |-> AbsentResult] }
  \cup [json : {"object"}, error : ErrorValues, result : ResultValues]

\* what execute() resolves to, or that it rejects
NoOutcome == [kind |-> "none", text |-> [form |-> "none"], details |-> "absent"]
\* { content: [{ type: "text", text }] } with or without details
Returned(text, details) == [kind |-> "returned", text |-> text, details |-> details]
Rejected(err) == [kind |-> "thrown", text |-> [form |-> "exception", error |-> err],
                  details |-> "absent"]

RefusalText(e) == [form |-> "refusal", kind |-> e.kind, service |-> e.service]
\* JSON.stringify({ error: true, status, message: text.slice(0, 1000) })
HttpErrorText(status, len) ==
  [form |-> "json", error |-> TRUE, status |-> status,
   message |-> "body excerpt", chars |-> Slice(len, MaxExcerptChars)]
\* JSON.stringify({ error: true, message: `Failed to parse MCP response: ...` })
ParseErrorText(why) ==
  [form |-> "json", error |-> TRUE, status |-> 0,
   message |-> "Failed to parse MCP response", chars |-> 0, why |-> why]
\* JSON.stringify({ error: true, message: errObj.message ?? JSON.stringify(errObj) })
ProtocolErrorText(e) ==
  [form |-> "json", error |-> TRUE, status |-> 0, message |-> ErrorText(e), chars |-> 0]
NoContentText == [form |-> "literal", message |-> "(no content returned)"]

\* resultObj?.content ?? resultObj ?? null, named by where the payload came from
McpContent(result) ==
  IF result.kind \in {"absent", "null"} THEN "null"
  ELSE IF result.kind = "string" THEN "result:string"
  ELSE IF result.content \in {"absent", "null"} THEN "result:object"
  ELSE IF result.content = "string" THEN "content:string"
  ELSE "content:array"

PayloadIsString(payload) == payload \in {"result:string", "content:string"}

\* typeof mcpContent === "string" ? mcpContent : JSON.stringify(mcpContent, null, 2)
PayloadText(payload) ==
  [form |-> IF PayloadIsString(payload) THEN "raw" ELSE "indented json",
   of |-> payload]

\* the error member never looked at
BodyOutcome_ignoresError(status, len, doc) ==
  IF ~ResponseOk(status)
    THEN IF doc.json = "unreadable" THEN Rejected("body read failed")
         ELSE Returned(HttpErrorText(status, len), "absent")
  ELSE IF doc.json = "unreadable" THEN Returned(ParseErrorText("read"), "absent")
  ELSE IF doc.json = "unparseable" THEN Returned(ParseErrorText("SyntaxError"), "absent")
  ELSE IF doc.json = "null" THEN Rejected("TypeError")
  ELSE IF doc.json = "primitive" THEN Returned(NoContentText, "absent")
  ELSE IF McpContent(doc.result) = "null" THEN Returned(NoContentText, "absent")
  ELSE Returned(PayloadText(McpContent(doc.result)), McpContent(doc.result))

\* lines 150-224 of execute() once the body has been awaited
BodyOutcome(status, len, doc) ==
  IF ~ResponseOk(status)
    THEN IF doc.json = "unreadable" THEN Rejected("body read failed")
         ELSE Returned(HttpErrorText(status, len), "absent")
  ELSE IF doc.json = "unreadable" THEN Returned(ParseErrorText("read"), "absent")
  ELSE IF doc.json = "unparseable" THEN Returned(ParseErrorText("SyntaxError"), "absent")
  ELSE IF doc.json = "null" THEN Rejected("TypeError")
  ELSE IF doc.json = "primitive" THEN Returned(NoContentText, "absent")
  ELSE IF ErrorTruthy(doc.error) THEN Returned(ProtocolErrorText(doc.error), "absent")
  ELSE IF McpContent(doc.result) = "null" THEN Returned(NoContentText, "absent")
  ELSE Returned(PayloadText(McpContent(doc.result)), McpContent(doc.result))

NoCallRequest == [sent |-> FALSE, name |-> None, id |-> None, arguments |-> None,
                  auth |-> None, session |-> None]

\* a request numbered by the bridge instead of the caller
CallRequest_counterId(mcpTool, toolCallId, params, token, sid) ==
  [sent |-> TRUE, name |-> mcpTool, id |-> "1", arguments |-> params,
   auth |-> AuthHeader(token), session |-> SessionHeader(sid)]

\* the tools/call request execute() hands to fetch
CallRequest(mcpTool, toolCallId, params, token, sid) ==
  [sent |-> TRUE, name |-> mcpTool, id |-> toolCallId, arguments |-> params,
   auth |-> AuthHeader(token), session |-> SessionHeader(sid)]

NoResolution == [token |-> None, error |-> NoRefusal]

\* what the caller handed to execute(), and the body the server answered with
NoGiven == [id |-> None, params |-> None]
NoReply == [len |-> 0, doc |-> [json |-> "none", error |-> AbsentError,
                                result |-> AbsentResult]]

\* a slot holding no bridged tool
NoCall == [pc |-> "none", tool |-> 0, userId |-> None, res |-> NoResolution,
           req |-> NoCallRequest, status |-> 0, result |-> NoOutcome,
           seenRec |-> NoRecord, seenNow |-> 0, changed |-> FALSE,
           given |-> NoGiven, reply |-> NoReply, heard |-> None]

\* ------------------------------------------------------ tools/call: actions
\* the host calls a registered factory with a session context: the bridged
\* tool is built with tokenOpts for the user of that session
CreateTool(c, k, sessionKey) ==
  /\ dpc = "done"
  /\ calls[c].pc \in {"none", "done"}
  /\ k \in 1..Len(registered)
  /\ calls' = [calls EXCEPT ![c] =
       [NoCall EXCEPT !.pc = "ready", !.tool = k,
                      !.userId = parseTelegramUserId(sessionKey)]]
  /\ UNCHANGED <<cfgVars, sseVars, gateVars, discVars, storeVars>>

Binding(c) == registered[calls[c].tool]
BoundServer(c) == servers[Binding(c).srv]

\* one user id kept for all bridged tools instead of one per factory call
TokenOptsOf_shared(c) ==
  TokenResolutionOptions(calls[1].userId, storeOk, BoundServer(c).prefix)

\* tokenOpts of the bridged tool in slot c
TokenOptsOf(c) == TokenResolutionOptions(calls[c].userId, storeOk, BoundServer(c).prefix)

\* the resolution of the first call kept for the later ones
ResolveAtCall_remembered(c) ==
  IF calls[c].pc = "done" THEN calls[c].res
  ELSE resolveToken(BoundServer(c), TokenOptsOf(c), tokenStore, now)

\* const { token, error } = resolveToken(server, tokenOpts), at the head of execute()
ResolveAtCall(c) == resolveToken(BoundServer(c), TokenOptsOf(c), tokenStore, now)

\* a refusal that does not stop the request from going out
ExecStart_sendsAnyway(c, toolCallId, params) ==
  /\ calls[c].pc \in {"ready", "done"}
  /\ LET r == ResolveAtCall(c)
     IN  calls' = [calls EXCEPT ![c] =
           [calls[c] EXCEPT
              !.res = r,
              !.seenRec = getToken(tokenStore, calls[c].userId, BoundServer(c).prefix),
              !.seenNow = now,
              !.changed = (calls[c].pc = "done" /\ r # calls[c].res),
              !.given = [id |-> toolCallId, params |-> params],
              !.reply = NoReply,
              !.status = 0,
              !.pc = "fetch",
              !.result = NoOutcome,
              !.req = CallRequest(Binding(c).tool, toolCallId, params, r.token,
                                  Binding(c).sessionId)]]
  /\ UNCHANGED <<cfgVars, sseVars, gateVars, discVars, storeVars>>

\* a resolver that drops the record it finds expired
StoreAfterResolve_evictsExpired(store, opts, t) ==
  IF /\ Truthy(opts.userId) /\ opts.tokenStore
     /\ getToken(store, opts.userId, opts.service).found
     /\ isExpired(getToken(store, opts.userId, opts.service), t)
    THEN [store EXCEPT ![<<opts.userId, opts.service>>] = NoRecord]
    ELSE store

\* the tokens table once resolveToken has run: getToken is a SELECT and
\* isExpired a comparison, so the table is as it was
StoreAfterResolve(store, opts, t) == store

\* execute() up to the await of fetch
ExecStart(c, toolCallId, params) ==
  /\ calls[c].pc \in {"ready", "done"}
  /\ LET r == ResolveAtCall(c)
         base == [calls[c] EXCEPT
                    !.res = r,
                    !.seenRec = getToken(tokenStore, calls[c].userId, BoundServer(c).prefix),
                    !.seenNow = now,
                    !.changed = (calls[c].pc = "done" /\ r # calls[c].res),
                    !.given = [id |-> toolCallId, params |-> params],
                    !.reply = NoReply,
                    !.status = 0]
     IN  calls' = [calls EXCEPT ![c] =
           IF r.error.kind # None
             THEN [base EXCEPT !.pc = "done", !.req = NoCallRequest,
                               !.result = Returned(RefusalText(r.error), "absent")]
             ELSE [base EXCEPT !.pc = "fetch", !.result = NoOutcome,
                               !.req = CallRequest(Binding(c).tool, toolCallId, params,
                                                   r.token, Binding(c).sessionId)]]
  /\ tokenStore' = StoreAfterResolve(tokenStore, TokenOptsOf(c), now)
  /\ UNCHANGED <<now, writes>>
  /\ UNCHANGED <<cfgVars, sseVars, gateVars, discVars>>

FetchOutcomes == {"network failure", "timeout"}

\* the awaited fetch rejects: nothing in execute() catches it
ExecFetchFails(c, why) ==
  /\ calls[c].pc = "fetch"
  /\ calls' = [calls EXCEPT ![c].pc = "done", ![c].result = Rejected(why)]
  /\ UNCHANGED <<cfgVars, sseVars, gateVars, discVars, storeVars>>

\* a bridge that takes over the session id a tools/call response carries
SessionAfterCall_recaptured(held, respSessionId) ==
  IF Truthy(respSessionId) THEN respSessionId ELSE held

\* the sessionId the factory closed over, once a response has arrived:
\* execute() reads response.ok and the body, never the headers
SessionAfterCall(held, respSessionId) == held

\* the awaited fetch resolves with a response
ExecFetchResponds(c, status, respSessionId) ==
  /\ calls[c].pc = "fetch"
  /\ calls' = [calls EXCEPT ![c].pc = "body", ![c].status = status,
                            ![c].heard = respSessionId]
  /\ registered' = [registered EXCEPT ![calls[c].tool].sessionId =
                      SessionAfterCall(Binding(c).sessionId, respSessionId)]
  /\ UNCHANGED <<curlChecked, srvIdx, dpc, sessionId, cursor, requestId, allTools,
                 lastReq, disc, registeredNames, probes, initSid, seenSid, pageLog,
                 lastDoc, initDoc, notified, lastHeader>>
  /\ UNCHANGED <<cfgVars, sseVars, gateVars, storeVars>>

\* the awaited response.text() settles and execute() runs to its end
ExecBody(c, len, doc) ==
  /\ calls[c].pc = "body"
  /\ calls' = [calls EXCEPT ![c].pc = "done",
                            ![c].reply = [len |-> len, doc |-> doc],
                            ![c].result = BodyOutcome(calls[c].status, len, doc)]
  /\ UNCHANGED <<cfgVars, sseVars, gateVars, discVars, storeVars>>

\* the host using the registered tools, the server answering from the given
\* statuses and bodies
ExecuteNext(slots, keys, ids, statuses, sids, lens, docs) ==
  \/ \E c \in slots, k \in 1..Len(registered), key \in keys : CreateTool(c, k, key)
  \/ \E c \in slots, id \in ids, a \in ParamValues : ExecStart(c, id, a)
  \/ \E c \in slots, why \in FetchOutcomes : ExecFetchFails(c, why)
  \/ \E c \in slots, st \in statuses, sid \in sids : ExecFetchResponds(c, st, sid)
  \/ \E c \in slots, len \in lens, doc \in docs : ExecBody(c, len, doc)

\* one bridged tool, called again and again
OneSlot == {1}

\* the answers drawn on where the body of the answer is not the subject
FewKeys == {<<>>, <<"agent", "main", "telegram", "default", "direct", "u1">>}
FewIds == {"call-1"}
FewStatuses == {200}
\* the Mcp-Session-Id header of a tools/call response, undefined when absent
NoResponseSession == {None}
ResponseSessions == {None, "s9"}
FewLengths == {0}
FewCallDocs == {[json |-> "object", error |-> AbsentError,
                 result |-> [kind |-> "object", content |-> "string"]]}

StoreNext ==
  \/ \E u \in Users, svc \in Prefixes, info \in TokenInfos : SetToken(u, svc, info)
  \/ \E u \in Users, svc \in Prefixes : DeleteToken(u, svc)
  \/ Tick

\* ------------------------------------------------------- decoding a body
\* no body is being decoded
SseIdle ==
  /\ sseInput = <<>>
  /\ sseOut = <<>>
  /\ ssePc = "idle"
  /\ sseFlag = FALSE

\* parseSseResponse(body) on a body that has arrived
Decode ==
  /\ ssePc = "idle"
  /\ sseOut' = parseSseResponse(RawOf(sseInput))
  /\ sseFlag' = IF StartsWith(Trim(RawOf(sseInput)), <<"{">>) THEN FALSE
                ELSE CollectData(Split(Trim(RawOf(sseInput))), 1, <<>>,
                                 FALSE).inMessageEvent
  /\ ssePc' = "decoded"
  /\ UNCHANGED <<sseInput, cfgVars, gateVars, discVars, storeVars, calls>>

\* ---------------------------------------------------- tier gate: values
CACHE_TTL_MS == 300000
NEGATIVE_CACHE_TTL_MS == 60000
CACHE_MAX_SIZE == 1000

\* BillingStatus: is_active, tier, gcal_gmail_status (status and email are
\* never read by the hooks)
BillingStatuses ==
  [is_active : BOOLEAN, tier : {"base", "pro", "team"},
   gcal_gmail_status : {"active", "pending", Null}]

NOT_FOUND_STATUS == [is_active |-> FALSE, tier |-> "none", gcal_gmail_status |-> Null]

\* BillingResult; sentinel says that status is the NOT_FOUND_STATUS object
UnreachableResult == [reachable |-> FALSE, status |-> NOT_FOUND_STATUS, sentinel |-> FALSE]
ReachableResult(status, sentinel) ==
  [reachable |-> TRUE, status |-> status, sentinel |-> sentinel]

\* how the GET /status/{id} request ends: fetch rejects, or a response
\* with a status code arrives
BillingFetchOutcomes ==
  { [kind |-> "network error", code |-> 0], [kind |-> "timeout", code |-> 0],
    [kind |-> "response", code |-> 200], [kind |-> "response", code |-> 404],
    [kind |-> "response", code |-> 500] }

\* what response.json() gives: it rejects, or a value that has the three
\* required fields with the right types, lacks one, or is null
BillingBodies(statuses) ==
  { [kind |-> "non-JSON", status |-> NOT_FOUND_STATUS],
    [kind |-> "malformed", status |-> NOT_FOUND_STATUS],
    [kind |-> "null", status |-> NOT_FOUND_STATUS] }
  \cup [kind : {"valid"}, status : statuses]

\* position from i on of the entry for a user (a Map holds a key once), 0
\* when there is none
CacheIndex(c, user, i) ==
  IF \E j \in i..Len(c) : c[j].key = user
    THEN CHOOSE j \in i..Len(c) : c[j].key = user
    ELSE 0

CacheHas(c, user) == CacheIndex(c, user, 1) # 0

\* this.cache.get(user) on a cache that has the user
CacheGet(c, user) == c[CacheIndex(c, user, 1)]

\* this.cache.delete(user)
CacheDelete(c, user) == SelectSeq(c, LAMBDA e : e.key # user)

\* this.cache.set(user, { status, fetchedAt }): a key already there keeps
\* its place in the order
CacheSet(c, user, status, sentinel, t) ==
  LET entry == [key |-> user, status |-> status, sentinel |-> sentinel, fetchedAt |-> t]
  IN  IF CacheHas(c, user)
        THEN [c EXCEPT ![CacheIndex(c, user, 1)] = entry]
        ELSE Append(c, entry)

\* cached.status === NOT_FOUND_STATUS ? NEGATIVE_CACHE_TTL_MS : CACHE_TTL_MS
TtlOf(entry) == IF entry.sentinel THEN NEGATIVE_CACHE_TTL_MS ELSE CACHE_TTL_MS

\* an entry still served when its age equals its TTL
Fresh_atTtl(entry, t) == t - entry.fetchedAt <= TtlOf(entry)

\* Date.now() - cached.fetchedAt < ttl
Fresh(entry, t) == t - entry.fetchedAt < TtlOf(entry)

\* an eviction that sweeps the expired entries and stops there
evictIfFull_sweepOnly(c, t) ==
  IF Len(c) < CACHE_MAX_SIZE THEN c
  ELSE SelectSeq(c, LAMBDA e : Fresh(e, t))

\* BillingClient.evictIfFull
evictIfFull(c, t) ==
  IF Len(c) < CACHE_MAX_SIZE THEN c
  ELSE LET swept == SelectSeq(c, LAMBDA e : Fresh(e, t))
       IN  IF Len(swept) >= CACHE_MAX_SIZE THEN Tail(swept) ELSE swept

\* tool names, split at the first "_"
GateToolNames ==
  { <<"sessions_spawn">>, <<"gmail", "_", "send">>, <<"gcal", "_", "list">>,
    <<"notion", "_", "search">>, <<"gmail">> }

\* params of a sessions_spawn call: agent, agentId and name, undefined when
\* not a string
SpawnParams ==
  { [agent |-> "gmail-agent", agentId |-> None, name |-> None],
    [agent |-> None, agentId |-> "gcal-agent", name |-> None],
    [agent |-> None, agentId |-> None, name |-> "gmail-agent"],
    [agent |-> "notion-agent", agentId |-> "gmail-agent", name |-> None],
    [agent |-> None, agentId |-> None, name |-> None] }

GATED_AGENTS == {"gmail-agent", "gcal-agent"}
GATED_TOOL_PREFIXES == {"gmail", "gcal"}

extractTargetAgent(params) ==
  IF params.agent # None THEN params.agent
  ELSE IF params.agentId # None THEN params.agentId
  ELSE params.name

\* beforeToolCall: the label of a gated call, undefined for any other call
GatedLabel(toolName, params) ==
  IF toolName = <<"sessions_spawn">>
    THEN IF extractTargetAgent(params) \in GATED_AGENTS
           THEN <<extractTargetAgent(params)>> ELSE <<None>>
  ELSE IF Len(toolName) >= 2 /\ toolName[1] \in GATED_TOOL_PREFIXES /\ toolName[2] = "_"
    THEN toolName
  ELSE <<None>>

\* what a hook returns
NoVerdict == [kind |-> "none", what |-> None]
Void == [kind |-> "void", what |-> None]
Block(reason) == [kind |-> "block", what |-> reason]
Context(text) == [kind |-> "context", what |-> text]

\* a gate that treats an unreachable lookup as no subscription
ToolVerdict_failClosed(result) ==
  IF ~result.reachable THEN Block("requires Pro")
  ELSE IF ~result.status.is_active \/ result.status.tier = "base"
    THEN Block("requires Pro")
  ELSE IF result.status.tier = "pro" /\ result.status.gcal_gmail_status # "active"
    THEN Block("being activated")
  ELSE Void

\* beforeToolCall from the BillingResult on
ToolVerdict(result) ==
  IF ~result.reachable THEN Void
  ELSE IF ~result.status.is_active \/ result.status.tier = "base"
    THEN Block("requires Pro")
  ELSE IF result.status.tier = "pro" /\ result.status.gcal_gmail_status # "active"
    THEN Block("being activated")
  ELSE Void

\* buildServiceContext(status, failOpen)
buildServiceContext(status, failOpen) ==
  IF failOpen THEN "all services (status not verified)"
  ELSE IF ~status.is_active \/ status.tier = "base" THEN "Notion and LinkedIn only"
  ELSE IF status.tier = "pro"
    THEN IF status.gcal_gmail_status = "active" THEN "all services active"
         ELSE IF status.gcal_gmail_status = "pending" THEN "activation in progress"
         ELSE "setup may be incomplete"
  ELSE "Notion and LinkedIn only (unknown tier)"

\* beforeAgentStart from the BillingResult on
AgentVerdict(result) ==
  IF ~result.reachable THEN Context(buildServiceContext(NOT_FOUND_STATUS, TRUE))
  ELSE Context(buildServiceContext(result.status, FALSE))

HookVerdict(hook, result) ==
  IF hook = "beforeToolCall" THEN ToolVerdict(result) ELSE AgentVerdict(result)

\* a slot in which no hook has been invoked
NoHook == [pc |-> "idle", hook |-> "none", label |-> <<None>>, userId |-> None,
           asked |-> FALSE, answer |-> "none", result |-> UnreachableResult,
           verdict |-> NoVerdict]

\* --------------------------------------------------- tier gate: actions
\* a hook is invoked and runs up to the await of fetch inside getStatus, or
\* to its end when it needs no lookup or the cache answers
HookStart(h, hook, toolName, params, sessionKey) ==
  /\ hooks[h].pc \in {"idle", "done"}
  /\ LET label == IF hook = "beforeToolCall" THEN GatedLabel(toolName, params)
                  ELSE <<None>>
         userId == parseTelegramUserId(sessionKey)
         base == [NoHook EXCEPT !.hook = hook, !.label = label, !.userId = userId]
     IN  IF (hook = "beforeToolCall" /\ label = <<None>>) \/ ~Truthy(userId)
           THEN /\ hooks' = [hooks EXCEPT ![h] =
                     [base EXCEPT !.pc = "done", !.userId = None, !.verdict = Void]]
                /\ UNCHANGED cache
         ELSE IF CacheHas(cache, userId) /\ Fresh(CacheGet(cache, userId), dateNow)
           THEN LET result == ReachableResult(CacheGet(cache, userId).status,
                                              CacheGet(cache, userId).sentinel)
                IN  /\ hooks' = [hooks EXCEPT ![h] =
                          [base EXCEPT !.pc = "done", !.answer = "cache",
                                       !.result = result,
                                       !.verdict = HookVerdict(hook, result)]]
                    /\ UNCHANGED cache
         ELSE /\ cache' = CacheDelete(cache, userId)
              /\ hooks' = [hooks EXCEPT ![h] = [base EXCEPT !.pc = "fetch", !.asked = TRUE]]
  /\ UNCHANGED dateNow
  /\ UNCHANGED <<cfgVars, sseVars, discVars, storeVars, calls>>

\* getStatus has returned result: the hook runs to its end
HookReturns(h, answer, result) ==
  [hooks EXCEPT ![h] = [hooks[h] EXCEPT !.pc = "done", !.answer = answer,
                                        !.result = result,
                                        !.verdict = HookVerdict(hooks[h].hook, result)]]

\* the awaited fetch settles
BillingFetchSettles(h, out) ==
  /\ hooks[h].pc = "fetch"
  /\ IF out.kind # "response"
       THEN /\ hooks' = HookReturns(h, out.kind, UnreachableResult)
            /\ UNCHANGED cache
     ELSE IF out.code = 404
       THEN /\ cache' = CacheSet(evictIfFull(cache, dateNow), hooks[h].userId,
                                 NOT_FOUND_STATUS, TRUE, dateNow)
            /\ hooks' = HookReturns(h, "404", ReachableResult(NOT_FOUND_STATUS, TRUE))
     ELSE IF ~(out.code >= 200 /\ out.code <= 299)
       THEN /\ hooks' = HookReturns(h, "error status", UnreachableResult)
            /\ UNCHANGED cache
     ELSE /\ hooks' = [hooks EXCEPT ![h].pc = "json"]
          /\ UNCHANGED cache
  /\ UNCHANGED dateNow
  /\ UNCHANGED <<cfgVars, sseVars, discVars, storeVars, calls>>

\* the awaited response.json() settles
BillingBodySettles(h, body) ==
  /\ hooks[h].pc = "json"
  /\ IF body.kind = "valid"
       THEN /\ cache' = CacheSet(evictIfFull(cache, dateNow), hooks[h].userId,
                                 body.status, FALSE, dateNow)
            /\ hooks' = HookReturns(h, "valid", ReachableResult(body.status, FALSE))
       ELSE /\ hooks' = HookReturns(h, body.kind, UnreachableResult)
            /\ UNCHANGED cache
  /\ UNCHANGED dateNow
  /\ UNCHANGED <<cfgVars, sseVars, discVars, storeVars, calls>>

\* BillingClient.invalidate
Invalidate(user) ==
  /\ CacheHas(cache, user)
  /\ cache' = CacheDelete(cache, user)
  /\ UNCHANGED <<dateNow, hooks>>
  /\ UNCHANGED <<cfgVars, sseVars, discVars, storeVars, calls>>

\* BillingClient.clearCache
ClearCache ==
  /\ cache # <<>>
  /\ cache' = <<>>
  /\ UNCHANGED <<dateNow, hooks>>
  /\ UNCHANGED <<cfgVars, sseVars, discVars, storeVars, calls>>

\* a minute goes by
Minute ==
  /\ dateNow < MaxMinutes * NEGATIVE_CACHE_TTL_MS
  /\ dateNow' = dateNow + NEGATIVE_CACHE_TTL_MS
  /\ UNCHANGED <<cache, hooks>>
  /\ UNCHANGED <<cfgVars, sseVars, discVars, storeVars, calls>>

HookIds == 1..MaxCalls
HookNames == {"beforeToolCall", "beforeAgentStart"}

\* the host invoking the hooks, the billing API answering with the given
\* statuses
GateNext(slots, keys, statuses) ==
  \/ \E h \in slots, hook \in HookNames, tool \in GateToolNames, pa \in SpawnParams,
        key \in keys : HookStart(h, hook, tool, pa, key)
  \/ \E h \in slots, out \in BillingFetchOutcomes : BillingFetchSettles(h, out)
  \/ \E h \in slots, body \in BillingBodies(statuses) : BillingBodySettles(h, body)
  \/ \E user \in Users : Invalidate(user)
  \/ ClearCache
  \/ Minute

\* no hook has run
GateIdle ==
  /\ cache = <<>>
  /\ dateNow = 0
  /\ hooks = [h \in HookIds |-> NoHook]

\* ----------------------------------------------------------- specifications
EmptyStore == [key \in StoreKeys |-> NoRecord]

\* register() has parsed the configuration and opened (or failed to open)
\* the token store; the loop over the servers is about to start
StartOf(n) ==
  /\ storeOk \in BOOLEAN
  /\ curlChecked = FALSE
  /\ srvIdx = 1
  /\ dpc = "start"
  /\ sessionId = None
  /\ cursor = None
  /\ requestId = 1
  /\ allTools = <<>>
  /\ lastReq = NoRequest
  /\ disc = [i \in 1..n |-> PendingResult]
  /\ registered = <<>>
  /\ registeredNames = {}
  /\ probes = 0
  /\ initSid = None
  /\ seenSid = None
  /\ pageLog = <<>>
  /\ lastDoc = NoDoc
  /\ initDoc = NoDoc
  /\ notified = NotSent
  /\ lastHeader = None
  /\ tokenStore = EmptyStore
  /\ now = 0
  /\ writes = 0
  /\ calls = [c \in CallIds |-> NoCall]
  /\ SseIdle
  /\ GateIdle

InitOf(n) == servers \in ServerLists(n) /\ StartOf(n)

\* startup: the orchestrator's loop over NumServers servers
Init == InitOf(NumServers)
Next == DiscoveryNext(FewOutcomes, FewInitDocs, FewNotifyOutcomes, FewDocs)
Spec == Init /\ [][Next]_vars

\* one server from startup to its tools being called
InitSession == InitOf(1)
NextSession ==
  \/ DiscoveryNext(CurlOutcomes, FewInitDocs, FewNotifyOutcomes, ListDocs)
  \/ ExecuteNext(OneSlot, FewKeys, FewIds, FewStatuses, NoResponseSession, FewLengths, FewCallDocs)
SpecSession == InitSession /\ [][NextSession]_vars

\* one server, configured with any of the url shapes, whose discovery may fail
\* at every request
InitFailure ==
  /\ servers \in {<<ServerConfigOf(1, sh)>> : sh \in UrlServerShapes}
  /\ StartOf(1)
NextFailure == DiscoveryNext(FewOutcomes, InitDocs, NotifyOutcomes, FailDocs)
SpecFailure == InitFailure /\ [][NextFailure]_vars

\* register() has returned for one server whose discovery listed one tool
RegisteredOne(sid) ==
  /\ servers \in ServerLists(1)
  /\ storeOk \in BOOLEAN
  /\ curlChecked = TRUE
  /\ srvIdx = 2
  /\ dpc = "done"
  /\ sessionId = None
  /\ cursor = None
  /\ requestId = 1
  /\ allTools = <<>>
  /\ lastReq = DiscoveryRequest(servers[1], "tools/list", "int", 1, None, sid)
  /\ disc = <<OkResult(<<"t1">>, sid)>>
  /\ registered = <<ToolFactory(1, servers[1], "t1", sid) @@ [init |-> sid, seen |-> sid]>>
  /\ registeredNames = {PrefixedName(servers[1].prefix, "t1")}
  /\ probes = 1
  /\ initSid = None
  /\ seenSid = None
  /\ pageLog = <<>>
  /\ lastDoc = NoDoc
  /\ initDoc = NoDoc
  /\ notified = NotSent
  /\ lastHeader = None
  /\ now = 0
  /\ writes = 0
  /\ calls = [c \in CallIds |-> NoCall]

\* calls against a credential store that changes between them
InitExec == RegisteredOne("s1") /\ tokenStore = EmptyStore /\ SseIdle /\ GateIdle
NextExec ==
  \/ ExecuteNext(OneSlot, SessionKeys, FewIds, FewStatuses, NoResponseSession, FewLengths, FewCallDocs)
  \/ StoreNext
SpecExec == InitExec /\ [][NextExec]_vars

\* the tools/call round trip under every answer of the server
InitCall == RegisteredOne("s1") /\ tokenStore = EmptyStore /\ SseIdle /\ GateIdle
NextCall == ExecuteNext(OneSlot, FewKeys, ToolCallIds, HttpStatuses, NoResponseSession, BodyLengths, CallDocs)
SpecCall == InitCall /\ [][NextCall]_vars

\* several bridged tools called at the same time
InitConcurrent == InitCall
NextConcurrent ==
  ExecuteNext(CallIds, FewKeys, ToolCallIds, FewStatuses \cup {500}, NoResponseSession,
              FewLengths, FewCallDocs)
SpecConcurrent == InitConcurrent /\ [][NextConcurrent]_vars

\* the store as it is once user u1 has connected service p
StoreWithRecord ==
  [EmptyStore EXCEPT ![<<"u1", "p">>] =
     [found |-> TRUE, access_token |-> "a2", hasExpiry |-> TRUE,
      expires_at |-> EXPIRY_BUFFER_SECONDS + MaxNow]]

\* one bridged tool of a server that gave a session id, an empty one or none
InitRequest ==
  /\ \E sid \in {None, Empty, "s1"} : RegisteredOne(sid)
  /\ tokenStore \in {EmptyStore, StoreWithRecord}
  /\ SseIdle
  /\ GateIdle
NextRequest ==
  ExecuteNext(OneSlot, FewKeys, ToolCallIds, FewStatuses, ResponseSessions, FewLengths,
              FewCallDocs)
SpecRequest == InitRequest /\ [][NextRequest]_vars

\* the hooks of the tier gate, invoked one at a time
GateStatuses ==
  { [is_active |-> TRUE, tier |-> "pro", gcal_gmail_status |-> "active"],
    [is_active |-> TRUE, tier |-> "base", gcal_gmail_status |-> Null] }
InitGate == InitCall
NextGate == GateNext(OneSlot, FewKeys, GateStatuses)
SpecGate == InitGate /\ [][NextGate]_vars

\* the hooks invoked one at a time for a user of any billing status
InitTiers == InitCall
NextTiers == GateNext(OneSlot, FewKeys, BillingStatuses)
SpecTiers == InitTiers /\ [][NextTiers]_vars

\* a response body arrives and is decoded
InitSse ==
  /\ RegisteredOne("s1")
  /\ servers[1].token = "st"
  /\ storeOk
  /\ tokenStore = EmptyStore
  /\ sseInput \in SseInputs
  /\ sseOut = <<>>
  /\ ssePc = "idle"
  /\ sseFlag = FALSE
  /\ GateIdle
NextSse == Decode
SpecSse == InitSse /\ [][NextSse]_vars

\* the access token user u was issued when connecting service svc
OwnToken(u, svc) ==
  IF u = "u1" THEN (IF svc = "p" THEN "tok-u1-p" ELSE "tok-u1-q")
  ELSE (IF svc = "p" THEN "tok-u2-p" ELSE "tok-u2-q")

\* sessions of two Telegram users and one session that names no user
IdentityKeys ==
  { <<>>,
    <<"agent", "main", "telegram", "default", "direct", "u1">>,
    <<"agent", "main", "telegram", "default", "direct", "u2", "x">> }

\* two bridged tools in use at the same time
TwoSlots == {c \in CallIds : c <= 2}

\* calls of two identities at the same time, while users connect and
\* disconnect services
InitIsolation == InitCall
NextIsolation ==
  \/ ExecuteNext(TwoSlots, IdentityKeys, FewIds, FewStatuses, NoResponseSession,
                 FewLengths, FewCallDocs)
  \/ \E u \in Users, svc \in Prefixes :
       SetToken(u, svc, [found |-> TRUE, access_token |-> OwnToken(u, svc),
                         hasExpiry |-> FALSE, expires_at |-> 0])
  \/ \E u \in Users, svc \in Prefixes : DeleteToken(u, svc)
SpecIsolation == InitIsolation /\ [][NextIsolation]_vars

\* the entry of the i-th of many users looked up at time 0; those at the
\* positions 2..(1 + k) were not found by the API
OtherUserEntry(i, k) ==
  IF i > 1 /\ i <= 1 + k
    THEN [key |-> ToString(i), status |-> NOT_FOUND_STATUS, sentinel |-> TRUE,
          fetchedAt |-> 0]
    ELSE [key |-> ToString(i),
          status |-> [is_active |-> TRUE, tier |-> "pro", gcal_gmail_status |-> "active"],
          sentinel |-> FALSE, fetchedAt |-> 0]

\* caches one short of full and full, two of their entries not-found ones
FullCaches ==
  { [i \in 1..n |-> OtherUserEntry(i, 2)] : n \in {CACHE_MAX_SIZE - 1, CACHE_MAX_SIZE} }

\* the gate at work for two more users when the cache is full or nearly so,
\* right after the lookups that filled it, a minute later, five minutes later
InitFull ==
  /\ RegisteredOne("s1")
  /\ servers[1].token = "st"
  /\ storeOk
  /\ tokenStore = EmptyStore
  /\ SseIdle
  /\ cache \in FullCaches
  /\ dateNow \in {0, NEGATIVE_CACHE_TTL_MS, CACHE_TTL_MS}
  /\ hooks = [h \in HookIds |-> NoHook]
\* the answers of the billing API that end in an insertion
InsertingOutcomes ==
  { [kind |-> "response", code |-> 200], [kind |-> "response", code |-> 404] }
InsertingBodies ==
  { [kind |-> "valid",
     status |-> [is_active |-> TRUE, tier |-> "base", gcal_gmail_status |-> Null]] }
NextFull ==
  \/ \E h \in TwoSlots, key \in IdentityKeys \ {<<>>} :
       HookStart(h, "beforeToolCall", <<"gmail", "_", "send">>,
                 [agent |-> None, agentId |-> None, name |-> None], key)
  \/ \E h \in TwoSlots, out \in InsertingOutcomes : BillingFetchSettles(h, out)
  \/ \E h \in TwoSlots, body \in InsertingBodies : BillingBodySettles(h, body)
  \/ \E user \in Users : Invalidate(user)
  \/ ClearCache
SpecFull == InitFull /\ [][NextFull]_vars

\* one server discovered by a register() that runs to its end: curl is run
\* with execFileSync and a timeout, so every request returns or throws and
\* the next statement is reached; the server ends its catalog within
\* MaxPages pages
InitTermination == InitOf(1)
NextTermination == DiscoveryNext(FewOutcomes, FewInitDocs, FewNotifyOutcomes, FailDocs)
SpecTermination ==
  InitTermination /\ [][NextTermination]_vars /\ WF_vars(NextTermination)

\* ------------------------------------------------------------- properties
\* execute() has been entered on the tool in slot c and has resolved a token
Started(c) == calls[c].pc \in {"fetch", "body", "done"}

\* a user id and a token store were both at hand
PerUser(c) == Truthy(calls[c].userId) /\ storeOk

\* the store held a record for the call's (user, service) and reported it expired
FoundExpired(c) ==
  PerUser(c) /\ calls[c].seenRec.found /\ isExpired(calls[c].seenRec, calls[c].seenNow)

\* the store held a record for the call's (user, service) and reported it valid
FoundValid(c) ==
  PerUser(c) /\ calls[c].seenRec.found /\ ~isExpired(calls[c].seenRec, calls[c].seenNow)

Refused(c, kind) ==
  /\ calls[c].pc = "done"
  /\ ~calls[c].req.sent
  /\ calls[c].result =
       Returned(RefusalText([kind |-> kind, service |-> BoundServer(c).prefix]), "absent")

\* C1: a call made with a user id and a store whose record for (user,
\* service) is reported expired ends there with the expired refusal as its
\* text, and no request (so no token, static or other) is sent.
C1_ExpiredRecordRefuses ==
  \A c \in CallIds :
    (Started(c) /\ FoundExpired(c)) => (Refused(c, "expired") /\ calls[c].res.token = None)

C1_Witness ==
  \E c \in CallIds :
    /\ Started(c) /\ FoundExpired(c)
    /\ BoundServer(c).token = "st"
    /\ calls[c].result.text.form = "refusal"

\* C2: whatever the tools/call round trip does, execute() ends by returning
\* a value; it never rejects.
C2_NoFailurePropagates ==
  \A c \in CallIds : calls[c].pc = "done" => calls[c].result.kind = "returned"

\* C3: on a non-success status execute() returns the block
\* { error: true, status, message: at most 1000 characters of the body }.
C3_NonSuccessStatusReturned ==
  \A c \in CallIds :
    (calls[c].pc = "done" /\ calls[c].status # 0 /\ ~ResponseOk(calls[c].status)) =>
      /\ calls[c].result.kind = "returned"
      /\ calls[c].result.text.form = "json"
      /\ calls[c].result.text.error
      /\ calls[c].result.text.status = calls[c].status
      /\ calls[c].result.text.message = "body excerpt"
      /\ calls[c].result.text.chars <= MaxExcerptChars
      /\ calls[c].result.details = "absent"

\* C4 as stated: the session id seen on the initialize response is the
\* session header of notifications/initialized, of every tools/list request
\* of that discovery and of every tools/call request of its tools.
C4_InitSessionOnEveryRequest ==
  /\ [][(dpc \in {"notify", "list"} /\ Truthy(initSid)) => lastReq'.session = initSid]_vars
  /\ [](\A c \in CallIds :
          (calls[c].req.sent /\ Truthy(registered[calls[c].tool].init)) =>
            calls[c].req.session = registered[calls[c].tool].init)

\* C4 amended: every request after initialize (notifications/initialized,
\* each tools/list, each tools/call of the discovered tools) carries the
\* session id most recently seen on a response of that discovery: the one
\* of the initialize response until a tools/list response brings another.
C4_LatestSessionOnEveryRequest ==
  /\ [][(dpc \in {"notify", "list"}) => lastReq'.session = seenSid]_vars
  /\ [](\A c \in CallIds :
          calls[c].req.sent => calls[c].req.session = registered[calls[c].tool].seen)

C4_Witness ==
  \E c \in CallIds :
    /\ calls[c].req.sent
    /\ Truthy(registered[calls[c].tool].init)
    /\ calls[c].req.session = registered[calls[c].tool].init
    /\ lastReq.method = "tools/list"
    /\ lastReq.num = 2
    /\ lastReq.session = registered[calls[c].tool].init

\* what register() has handed to registerTool, as (server, tool) pairs
RegisteredPairs ==
  [i \in 1..Len(registered) |-> <<registered[i].srv, registered[i].tool>>]

RECURSIVE ToolsOfServersUpTo(_)
ToolsOfServersUpTo(n) ==
  IF n = 0 THEN <<>>
  ELSE ToolsOfServersUpTo(n - 1) \o
         (IF disc[n].status = "ok"
            THEN [i \in 1..Len(disc[n].tools) |-> <<n, disc[n].tools[i]>>]
            ELSE <<>>)

\* servers whose loop iteration is over
ServersDone == srvIdx - 1

\* C5: the loop ends only after the last server; every server before the
\* loop position was discovered (it failed or it answered), a failed one
\* contributes no tool, and the registered tools are exactly those of the
\* servers that answered, in configuration order.
C5_FailureSkipsOnlyThatServer ==
  /\ dpc = "done" <=> srvIdx = Len(servers) + 1
  /\ \A n \in 1..(srvIdx - 1) : disc[n].status \in {"ok", "failed"}
  /\ \A n \in 1..Len(servers) : disc[n].status = "failed" =>
       \A i \in 1..Len(registered) : registered[i].srv # n
  /\ RegisteredPairs = ToolsOfServersUpTo(ServersDone)

C5_Witness ==
  /\ dpc = "done"
  /\ disc[1].status = "failed"
  /\ disc[1].err = CurlMissingError
  /\ disc[Len(servers)].status = "ok"
  /\ \E i \in 1..Len(registered) : registered[i].srv = Len(servers)

RECURSIVE Flatten(_)
Flatten(pages) ==
  IF pages = <<>> THEN <<>> ELSE Head(pages) \o Flatten(Tail(pages))

\* C6: the catalog is the concatenation of the pages' tools arrays in the
\* order the pages came, while the loop runs and when discovery returns.
C6_CatalogIsConcatenationOfPages ==
  /\ dpc = "list" => allTools = Flatten(pageLog)
  /\ dpc = "register" => disc[srvIdx].tools = Flatten(pageLog)

C6_Witness ==
  /\ dpc = "register"
  /\ Len(pageLog) = 2
  /\ pageLog[1] = <<"t2", "t1">>
  /\ pageLog[2] = <<"t1">>
  /\ disc[srvIdx].tools = <<"t2", "t1", "t1">>

\* the server whose tools/list page lastDoc is
PageServer == IF dpc \in {"list", "register"} THEN srvIdx ELSE srvIdx - 1

FailedWith(n, kind, text) ==
  /\ dpc \in {"start", "done"}
  /\ disc[n] = FailedResult(WrappedError(servers[n], kind, text))

C8_RecordThenStaticToken ==
  \A c \in CallIds : Started(c) =>
    /\ FoundValid(c) =>
         /\ calls[c].res = [token |-> calls[c].seenRec.access_token, error |-> NoRefusal]
         /\ calls[c].req.sent
         /\ calls[c].req.auth = AuthHeader(calls[c].seenRec.access_token)
    /\ (~(PerUser(c) /\ calls[c].seenRec.found) /\ Truthy(BoundServer(c).token)) =>
         /\ calls[c].res = [token |-> BoundServer(c).token, error |-> NoRefusal]
         /\ calls[c].req.sent
         /\ calls[c].req.auth = BoundServer(c).token

C8_Witness ==
  \E c \in CallIds :
    /\ Started(c) /\ FoundValid(c)
    /\ BoundServer(c).token = "st"
    /\ calls[c].req.auth = "a2"

\* C9: without a static token, the call is refused with the authenticate
\* prompt exactly when a user id and a store are at hand and no record is
\* found; when the user id or the store is missing it goes out with no
\* Authorization header.
C9_PromptOrNoToken ==
  \A c \in CallIds : (Started(c) /\ ~Truthy(BoundServer(c).token)) =>
    /\ Refused(c, "notfound") <=> (PerUser(c) /\ ~calls[c].seenRec.found)
    /\ calls[c].res.error.kind = "notfound" <=> (PerUser(c) /\ ~calls[c].seenRec.found)
    /\ ~PerUser(c) =>
         /\ calls[c].res = [token |-> None, error |-> NoRefusal]
         /\ calls[c].req.sent
         /\ calls[c].req.auth = None

C9_Witness ==
  \E c \in CallIds :
    /\ Refused(c, "notfound")
    /\ BoundServer(c).token = Empty
    /\ PerUser(c)

\* the outcome the priority order gives for what the store held at the call
OutcomeFor(static, userId, hasStore, rec, t) ==
  LET perUser == Truthy(userId) /\ hasStore
  IN  CASE perUser /\ rec.found /\ isExpired(rec, t) -> <<"refuse", "expired">>
        [] perUser /\ rec.found /\ ~isExpired(rec, t) -> <<"use", rec.access_token>>
        [] ~(perUser /\ rec.found) /\ Truthy(static) -> <<"use", static>>
        [] ~(perUser /\ rec.found) /\ ~Truthy(static) /\ perUser -> <<"refuse", "notfound">>
        [] OTHER -> <<"use", None>>

\* C10: every call of a bridged tool is resolved against the record the
\* store holds, and the clock, at the moment of that call, whatever earlier
\* calls of the same tool resolved to.
C10_ResolvedAtEachCall ==
  \A c \in CallIds : Started(c) =>
    (IF calls[c].res.error.kind # None
       THEN <<"refuse", calls[c].res.error.kind>>
       ELSE <<"use", calls[c].res.token>>)
    = OutcomeFor(BoundServer(c).token, calls[c].userId, storeOk,
                 calls[c].seenRec, calls[c].seenNow)

C10_Witness ==
  \E c \in CallIds :
    /\ Started(c)
    /\ calls[c].changed
    /\ writes = MaxWrites
    /\ calls[c].res.token = "a2"

\* ------------------------------------------------- properties of the decoder
Decoded == ssePc = "decoded"

KindAt(input, i) == LineShapes[input[i]].kind

\* the lines of the body that are event: message lines
MessageLines(input) == {i \in 1..Len(input) : KindAt(input, i) = "message"}

\* the last event: message line of the body, 0 when it has none
LastMessage(input) ==
  IF MessageLines(input) = {} THEN 0
  ELSE CHOOSE i \in MessageLines(input) : \A j \in MessageLines(input) : j <= i

\* the first line that is not blank opens a JSON object
BraceFirst(input) ==
  \E i \in 1..Len(input) :
    /\ KindAt(input, i) = "brace"
    /\ \A j \in 1..(i - 1) : KindAt(input, j) = "blank"

\* the data lines after line k, in order
DataLinesAfter(input, k) ==
  SelectSeq([i \in 1..Len(input) |-> IF i > k /\ KindAt(input, i) = "data" THEN i ELSE 0],
            LAMBDA i : i # 0)

\* their payloads with the prefix and the whitespace around them removed
PayloadsAfter(input, k) ==
  [n \in 1..Len(DataLinesAfter(input, k)) |->
     LineShapes[input[DataLinesAfter(input, k)[n]]].payload]

\* their payloads with the prefix and one space removed
OneSpaceAfter(input, k) ==
  [n \in 1..Len(DataLinesAfter(input, k)) |->
     LineShapes[input[DataLinesAfter(input, k)[n]]].oneSpace]

\* framed input with several event: message lines
MultiBlock(input) == ~BraceFirst(input) /\ Cardinality(MessageLines(input)) >= 2

\* framed input with data lines and at most one event: message line, which
\* no data line precedes
SingleBlock(input) ==
  /\ ~BraceFirst(input)
  /\ Cardinality(MessageLines(input)) <= 1
  /\ DataLinesAfter(input, 0) # <<>>
  /\ DataLinesAfter(input, 0) = DataLinesAfter(input, LastMessage(input))

\* C12 as stated: for input with several event: message lines the result is
\* the joined data of the lines after the last of them, and nothing else.
C12_OnlyLastBlockData ==
  (Decoded /\ MultiBlock(sseInput)) =>
    sseOut = Join(PayloadsAfter(sseInput, LastMessage(sseInput)))

\* C12 amended: for input with several event: message lines, when a data
\* line follows the last of them the result is the joined data of the lines
\* after it and nothing of the earlier blocks; when none follows, the result
\* is the whole trimmed input.
C12_LastBlockDataOrWholeText ==
  (Decoded /\ MultiBlock(sseInput)) =>
    IF DataLinesAfter(sseInput, LastMessage(sseInput)) # <<>>
      THEN sseOut = Join(PayloadsAfter(sseInput, LastMessage(sseInput)))
      ELSE sseOut = Trim(RawOf(sseInput))

C12_Witness ==
  /\ Decoded
  /\ MultiBlock(sseInput)
  /\ \E i \in 1..Len(sseInput) :
       /\ i < LastMessage(sseInput)
       /\ KindAt(sseInput, i) = "data"
       /\ LineShapes[sseInput[i]].payload = <<"a">>
  /\ sseOut = <<"b">>

\* C13 as stated: a single block's data lines come back joined by a newline,
\* each without its prefix and without at most one space after the prefix.
C13_DataLinesJoinedLessOneSpace ==
  (Decoded /\ SingleBlock(sseInput)) => sseOut = Join(OneSpaceAfter(sseInput, 0))

\* C13 amended: a single block's data lines come back joined by a newline,
\* each without its prefix and without any whitespace at either end.
C13_DataLinesJoinedTrimmed ==
  (Decoded /\ SingleBlock(sseInput)) => sseOut = Join(PayloadsAfter(sseInput, 0))

C13_Witness ==
  /\ Decoded
  /\ SingleBlock(sseInput)
  /\ LastMessage(sseInput) = 1
  /\ Len(DataLinesAfter(sseInput, 0)) = 3
  /\ sseOut = <<"a", " ", "b", "\n", "\n", "b">>

\* C14: a body whose trimmed text starts with { comes back as its trimmed
\* text, whatever framing lines follow.
C14_PlainJsonFirst ==
  (Decoded /\ BraceFirst(sseInput)) => sseOut = Trim(RawOf(sseInput))

C14_Witness ==
  /\ Decoded
  /\ BraceFirst(sseInput)
  /\ MessageLines(sseInput) # {}
  /\ DataLinesAfter(sseInput, LastMessage(sseInput)) # <<>>
  /\ sseOut = Trim(RawOf(sseInput))

\* C15: a body of blank lines only gives the empty text, and a body with no
\* data line gives its trimmed text.
C15_NoDataGivesTrimmedText ==
  Decoded =>
    /\ (\A i \in 1..Len(sseInput) : KindAt(sseInput, i) = "blank") => sseOut = <<>>
    /\ DataLinesAfter(sseInput, 0) = <<>> => sseOut = Trim(RawOf(sseInput))

C15_Witness ==
  /\ Decoded
  /\ DataLinesAfter(sseInput, 0) = <<>>
  /\ MessageLines(sseInput) # {}
  /\ KindAt(sseInput, 1) = "blank"
  /\ KindAt(sseInput, Len(sseInput)) = "other"
  /\ sseOut = Trim(RawOf(sseInput))
  /\ sseOut # RawOf(sseInput)

\* ------------------------------------------- properties of execute(), again
\* token resolution of the call in slot c ended in a refusal
ResolvedRefusal(c) == Started(c) /\ calls[c].res.error.kind # None

\* C11: a call whose token resolution gives a refusal is over at once: no
\* request is built or sent, and what it returns is one text block with the
\* refusal text and no details.
C11_RefusalSendsNothing ==
  \A c \in CallIds : ResolvedRefusal(c) =>
    /\ calls[c].pc = "done"
    /\ calls[c].req = NoCallRequest
    /\ calls[c].status = 0
    /\ calls[c].result = Returned(RefusalText(calls[c].res.error), "absent")

C11_Witness ==
  \E c \in CallIds :
    /\ ResolvedRefusal(c)
    /\ calls[c].res.error.kind = "expired"
    /\ calls[c].given.id = "call-1"
    /\ calls[c].result.kind = "returned"
    /\ calls[c].result.details = "absent"
    /\ ~calls[c].req.sent

\* a catalog that names no tool twice
NoRepeat(tools) ==
  \A i, j \in 1..Len(tools) : tools[i] = tools[j] => i = j

\* C16: when every server's catalog names each of its tools once, no two
\* registered tools have the same name prefix_toolName.
C16_RegisteredNamesUnique ==
  (\A n \in 1..Len(servers) : NoRepeat(disc[n].tools)) =>
    \A i, j \in 1..Len(registered) : registered[i].name = registered[j].name => i = j

\* the request the call in slot c builds from what it was given alone
RequestAlone(c) ==
  IF calls[c].res.error.kind # None THEN NoCallRequest
  ELSE CallRequest(Binding(c).tool, calls[c].given.id, calls[c].given.params,
                   calls[c].res.token, Binding(c).sessionId)

\* the resolution the call in slot c gets from its own user and the store
ResolutionAlone(c) ==
  resolveToken(BoundServer(c),
               TokenResolutionOptions(calls[c].userId, storeOk, BoundServer(c).prefix),
               tokenStore, now)

\* C17: with calls in flight at the same time, a step of one call changes
\* no other call and no registered binding, and each call's resolution,
\* request and result are those of its own arguments, the store and the
\* response it got.
C17_CallsShareNothing ==
  /\ [][/\ registered' = registered
        /\ \A c, d \in CallIds :
             (c # d /\ calls'[c] # calls[c]) => calls'[d] = calls[d]]_vars
  /\ [](\A c \in CallIds : Started(c) =>
          /\ calls[c].res = ResolutionAlone(c)
          /\ calls[c].req = RequestAlone(c)
          /\ (calls[c].pc = "done" /\ calls[c].status # 0) =>
               calls[c].result =
                 BodyOutcome(calls[c].status, calls[c].reply.len, calls[c].reply.doc))

C17_Witness ==
  \E c, d \in CallIds :
    /\ c # d
    /\ calls[c].pc = "body"
    /\ calls[d].pc = "done"
    /\ calls[d].status = 500
    /\ calls[c].userId # calls[d].userId
    /\ calls[c].given.id # calls[d].given.id
    /\ calls[c].req.sent /\ calls[d].req.sent

\* the body of the call in slot c was parsed and has no error member
ParsedWithoutError(c) ==
  /\ calls[c].pc = "done"
  /\ ResponseOk(calls[c].status)
  /\ calls[c].reply.doc.json \in {"object", "primitive", "null"}
  /\ calls[c].reply.doc.error.kind = "absent"

\* result.content when present, else result, else nothing
PayloadOf(doc) == IF doc.json = "object" THEN McpContent(doc.result) ELSE "null"

\* C18: on a success status and a parsed body without error, the payload is
\* result.content, else result, else the text "(no content returned)"; a
\* string payload is the text as is, any other payload indented JSON, and
\* details is the payload (absent only when there is no content).
C18_PayloadSelection ==
  \A c \in CallIds : ParsedWithoutError(c) =>
    calls[c].result =
      IF PayloadOf(calls[c].reply.doc) = "null"
        THEN Returned(NoContentText, "absent")
        ELSE Returned([form |-> IF PayloadOf(calls[c].reply.doc)
                                     \in {"result:string", "content:string"}
                                  THEN "raw" ELSE "indented json",
                       of |-> PayloadOf(calls[c].reply.doc)],
                      PayloadOf(calls[c].reply.doc))

\* the call in slot c got a success status and its body has arrived
SuccessBody(c) == calls[c].pc = "done" /\ ResponseOk(calls[c].status)

\* C19 as stated: on a success status a body that cannot be read or parsed
\* gives a returned block describing the parse failure, and a parsed body
\* with an error member gives a returned block with that error's message.
C19_ParseFailureOrErrorFieldReturned ==
  \A c \in CallIds : SuccessBody(c) =>
    /\ calls[c].reply.doc.json \in {"unreadable", "unparseable"} =>
         /\ calls[c].result.kind = "returned"
         /\ calls[c].result.text.form = "json"
         /\ calls[c].result.text.message = "Failed to parse MCP response"
         /\ calls[c].result.details = "absent"
    /\ (calls[c].reply.doc.json = "object" /\ calls[c].reply.doc.error.kind # "absent") =>
         calls[c].result = Returned(ProtocolErrorText(calls[c].reply.doc.error), "absent")

\* C19 amended: the same, for an error member with a truthy value; a falsy
\* error member (null, false, 0, "") is passed over and the result content
\* is returned.
C19_ParseFailureOrTruthyErrorReturned ==
  \A c \in CallIds : SuccessBody(c) =>
    /\ calls[c].reply.doc.json \in {"unreadable", "unparseable"} =>
         /\ calls[c].result.kind = "returned"
         /\ calls[c].result.text.form = "json"
         /\ calls[c].result.text.message = "Failed to parse MCP response"
         /\ calls[c].result.details = "absent"
    /\ (calls[c].reply.doc.json = "object" /\ ErrorTruthy(calls[c].reply.doc.error)) =>
         calls[c].result = Returned(ProtocolErrorText(calls[c].reply.doc.error), "absent")
    /\ (calls[c].reply.doc.json = "object" /\ calls[c].reply.doc.error.kind = "falsy") =>
         /\ calls[c].result.kind = "returned"
         /\ calls[c].result.details = PayloadOf(calls[c].reply.doc) \/
              (PayloadOf(calls[c].reply.doc) = "null" /\ calls[c].result.details = "absent")
         /\ calls[c].result.text.form \in {"raw", "indented json", "literal"}

C19_Witness ==
  \E c \in CallIds :
    /\ SuccessBody(c)
    /\ calls[c].reply.doc.json = "object"
    /\ calls[c].reply.doc.error = [kind |-> "object", message |-> "boom"]
    /\ calls[c].reply.doc.result.content = "array"
    /\ calls[c].result.text.message = "boom"
    /\ calls[c].result.details = "absent"

\* C20: a request execute() sends has the caller's id, the remote tool's own
\* name (the tool being registered as prefix_name), the caller's params, an
\* Authorization header exactly when a non-empty token was resolved, and a
\* session header exactly when discovery returned a non-empty session id.
C20_RequestFields ==
  \A c \in CallIds : calls[c].req.sent =>
    /\ calls[c].req.id = calls[c].given.id
    /\ calls[c].req.name = Binding(c).tool
    /\ \E i \in 1..Len(disc[Binding(c).srv].tools) :
         disc[Binding(c).srv].tools[i] = calls[c].req.name
    /\ Binding(c).name = PrefixedName(BoundServer(c).prefix, calls[c].req.name)
    /\ calls[c].req.arguments = calls[c].given.params
    /\ calls[c].req.auth # None <=> Truthy(calls[c].res.token)
    /\ calls[c].req.auth # None => calls[c].req.auth = calls[c].res.token
    /\ calls[c].req.session # None <=> Truthy(disc[Binding(c).srv].sessionId)
    /\ calls[c].req.session # None =>
         calls[c].req.session = disc[Binding(c).srv].sessionId

C20_Witness ==
  \E c \in CallIds :
    /\ calls[c].req.sent
    /\ calls[c].given.id = "call-2"
    /\ calls[c].req.id = "call-2"
    /\ calls[c].req.name = "t1"
    /\ calls[c].req.auth = "a2"
    /\ calls[c].req.session = "s1"

\* ---------------------------------------------------------------- C21
\* the url shape server n is configured with
ShapeOf(server) ==
  CHOOSE u \in 1..Len(UrlShapes) :
    UrlShapes[u].url = server.url /\ UrlShapes[u].path = server.path

Contains(text, piece) == \E i \in 1..Len(text) : text[i] = piece

\* discoverToolsSync threw from inside its try for server n
FailedInside(n) == disc[n].status = "failed" /\ disc[n].err # CurlMissingError

\* an exception in a tools/list iteration ends the discovery as failed
ListFailureRaised ==
  [][(dpc = "list" /\ PageError(Server, lastDoc') # NoError) =>
       (disc'[srvIdx].status = "failed" /\ disc'[srvIdx].err.name = Server.name)]_vars

\* C21 as stated: every failure raised inside the discovery sequence is one
\* discovery failure whose message names the server and shows the endpoint
\* URL with its query taken out, and the query never shows.
C21_FailureShowsStrippedEndpoint ==
  /\ [](\A n \in 1..Len(servers) :
          FailedInside(n) =>
            /\ disc[n].err.name = servers[n].name
            /\ disc[n].err.url = UrlShapes[ShapeOf(servers[n])].stripped
            /\ ~Contains(disc[n].err.url, "?")
            /\ ~Contains(disc[n].err.url, "key=s"))
  /\ ListFailureRaised

\* C21 amended: every failure raised inside the discovery sequence is one
\* discovery failure whose message names the server and shows either the
\* endpoint URL with its query taken out and a final slash dropped, or, when
\* the endpoint does not parse as a URL, the placeholder "(invalid URL)";
\* the query never shows.
C21_FailureShowsSafeUrlOrPlaceholder ==
  /\ [](\A n \in 1..Len(servers) :
          FailedInside(n) =>
            /\ disc[n].err.name = servers[n].name
            /\ disc[n].err.url = UrlShapes[ShapeOf(servers[n])].safe
            /\ ~Contains(disc[n].err.url, "?")
            /\ ~Contains(disc[n].err.url, "key=s"))
  /\ ListFailureRaised

C21_Witness ==
  /\ dpc = "done"
  /\ FailedInside(1)
  /\ UrlShapes[ShapeOf(servers[1])].kind = "query"
  /\ lastDoc.json = "unparseable"
  /\ disc[1].err.kind = "SyntaxError"
  /\ disc[1].err.url = <<"https", "://", "h", "/", "mcp">>

\* ---------------------------------------------------------------- C22
\* the initialize body of this discovery did not parse or carried an error
InitBodyBad == InitBodyOutcome(initDoc) \in {"caught", "ignored"}

\* C22: nothing in the body of the initialize response fails the discovery
\* (a discovery that fails at initialize fails on the transport); after it
\* notifications/initialized and then tools/list are sent, and a discovery
\* whose initialize body did not parse or carried an error returns the
\* tools its pages listed.
C22_InitializeBodyIsBestEffort ==
  /\ [][(dpc = "init" /\ disc'[srvIdx].status = "failed") =>
          disc'[srvIdx].err.kind = "transport"]_vars
  /\ [][(dpc = "notify" /\ InitBodyBad) =>
          (lastReq'.method = "notifications/initialized" /\ dpc' = "list")]_vars
  /\ [][(dpc = "list" /\ InitBodyBad) => lastReq'.method = "tools/list"]_vars
  /\ []((dpc = "register" /\ InitBodyBad) =>
          (disc[srvIdx].status = "ok" /\ disc[srvIdx].tools = Flatten(pageLog)))

C22_Witness ==
  /\ dpc = "register"
  /\ initDoc.json = "unparseable"
  /\ disc[srvIdx] = OkResult(<<"t2", "t1", "t1">>, None)
  /\ lastReq.method = "tools/list"
  /\ lastReq.num = 2

\* ---------------------------------------------------------------- C23
\* the notification of this discovery was sent and failed: curl threw
\* (transport error, timeout) or the answer had a non-2xx status
NotifyFailed ==
  /\ notified.sent
  /\ notified.threw \/ ~ResponseOk(notified.status)

\* C23: however the notifications/initialized request ends, the discovery
\* goes on to the tools/list loop with the session id it held and nothing
\* recorded as failed; after a failed notification the first tools/list
\* request is sent, with the session id of the initialize response.
C23_NotificationFailureIsSwallowed ==
  /\ [][dpc = "notify" =>
          (dpc' = "list" /\ sessionId' = sessionId /\ disc' = disc)]_vars
  /\ []((dpc = "list" /\ NotifyFailed /\ requestId = 1) => sessionId = initSid)
  /\ [][(dpc = "list" /\ NotifyFailed /\ requestId = 1) =>
          /\ lastReq'.method = "tools/list"
          /\ lastReq'.num = 1
          /\ lastReq'.session = SessionHeader(initSid)]_vars

C23_Witness ==
  /\ dpc = "register"
  /\ NotifyFailed
  /\ notified.status = 500
  /\ notified.session = "s2"
  /\ initSid = None
  /\ lastReq.method = "tools/list"
  /\ lastReq.session = None
  /\ disc[srvIdx].status = "ok"
  /\ disc[srvIdx].sessionId = None

\* ---------------------------------------------------------------- C24
\* C24: no step of an execute() call (token resolution, the request, the
\* reading of the answer) changes the tokens table, whether the record
\* resolution looked for was valid, expired or missing.
C24_ExecuteNeverWritesStore ==
  [][calls' # calls => tokenStore' = tokenStore]_vars

C24_Witness ==
  \E c \in CallIds :
    /\ calls[c].pc = "done"
    /\ FoundExpired(c)
    /\ Refused(c, "expired")
    /\ getToken(tokenStore, calls[c].userId, BoundServer(c).prefix) = calls[c].seenRec
    /\ writes = 1

\* ---------------------------------------------------------------- C25
\* the ways a lookup ends without a result from the billing API
UnreachableAnswers ==
  {"network error", "timeout", "error status", "non-JSON", "malformed", "null"}

\* C25: a hook whose lookup ended unreachable (network error, timeout,
\* non-404 error status, non-JSON or malformed body) does not block:
\* beforeToolCall returns nothing and beforeAgentStart gives the
\* all-services context; a block is only ever returned on a reachable
\* result (a fresh cache entry, a 404 or a valid body).
C25_GateFailsOpen ==
  \A h \in HookIds :
    hooks[h].pc = "done" =>
      /\ hooks[h].answer \in UnreachableAnswers =>
           /\ ~hooks[h].result.reachable
           /\ hooks[h].hook = "beforeToolCall" => hooks[h].verdict = Void
           /\ hooks[h].hook = "beforeAgentStart" =>
                hooks[h].verdict = Context("all services (status not verified)")
      /\ hooks[h].verdict.kind = "block" =>
           /\ hooks[h].result.reachable
           /\ hooks[h].answer \in {"cache", "404", "valid"}

C25_Witness ==
  \E h \in HookIds :
    /\ hooks[h].pc = "done"
    /\ hooks[h].hook = "beforeToolCall"
    /\ hooks[h].label = <<"gmail", "_", "send">>
    /\ hooks[h].userId = "u1"
    /\ hooks[h].asked
    /\ hooks[h].answer = "error status"
    /\ hooks[h].verdict = Void
    /\ dateNow >= CACHE_TTL_MS
    /\ cache = <<>>

\* ---------------------------------------------------------------- C26
\* the session id held once a response has been read: the id it carried,
\* or the id held before when it carried none
Observed(held, header) == IF Truthy(header) THEN header ELSE held

\* C26: each tools/list request carries the held session id; the id a
\* page's response carries replaces the held one and a page without one
\* leaves it as it was, for the next page request and for what discovery
\* returns.
C26_LastObservedSessionHeld ==
  /\ [][dpc = "list" => lastReq'.session = SessionHeader(sessionId)]_vars
  /\ [][(dpc = "list" /\ dpc' = "list") =>
          sessionId' = Observed(sessionId, lastHeader')]_vars
  /\ [][(dpc = "list" /\ dpc' = "register") =>
          disc'[srvIdx].sessionId = Observed(sessionId, lastHeader')]_vars
  /\ [](dpc = "notify" => sessionId = lastHeader)

C26_Witness ==
  /\ dpc = "register"
  /\ initSid = "s1"
  /\ lastReq.num = 2
  /\ lastReq.session = "s2"
  /\ lastHeader = None
  /\ disc[srvIdx].status = "ok"
  /\ disc[srvIdx].sessionId = "s2"

\* ---------------------------------------------------------------- C27
\* how far discoverToolsSync has come for the server at hand
Rank(pc) ==
  CASE pc = "start" -> 0
    [] pc = "init" -> 1
    [] pc = "notify" -> 2
    [] pc = "list" -> 3
    [] pc = "register" -> 4
    [] OTHER -> 5

\* the discovery of the server at hand ends in this step as failed
FailsNow == disc'[srvIdx].status = "failed" /\ srvIdx' = srvIdx + 1

\* C27: a discovery sends initialize, then notifications/initialized, then
\* tools/list with ids 1, 2, ...; every step sends one request and has its
\* answer before the next is sent; a request that fails ends the discovery
\* of that server, whose sequence is never gone through again.
C27_RequestsInOrderOnce ==
  /\ [][dpc = "init" =>
          /\ lastReq'.method = "initialize" /\ lastReq'.srv = srvIdx
          /\ (dpc' = "notify" /\ srvIdx' = srvIdx) \/ FailsNow]_vars
  /\ [][dpc = "notify" =>
          /\ lastReq'.method = "notifications/initialized" /\ lastReq'.srv = srvIdx
          /\ dpc' = "list" /\ srvIdx' = srvIdx /\ requestId' = 1]_vars
  /\ [][dpc = "list" =>
          /\ lastReq'.method = "tools/list" /\ lastReq'.srv = srvIdx
          /\ lastReq'.num = requestId
          /\ \/ dpc' = "list" /\ srvIdx' = srvIdx /\ requestId' = requestId + 1
             \/ dpc' = "register" /\ srvIdx' = srvIdx
             \/ FailsNow]_vars
  /\ [][dpc \notin {"init", "notify", "list"} => lastReq' = lastReq]_vars
  /\ [][/\ srvIdx' >= srvIdx
        /\ srvIdx' = srvIdx => Rank(dpc') >= Rank(dpc)
        /\ disc[srvIdx].status # "pending" => disc'[srvIdx] = disc[srvIdx]]_vars

C27_Witness ==
  /\ srvIdx = 2
  /\ disc[1].status = "failed"
  /\ disc[1].err.kind = "transport"
  /\ dpc = "register"
  /\ lastReq.srv = 2
  /\ lastReq.method = "tools/list"
  /\ lastReq.num = 2

\* ---------------------------------------------------------------- C28
\* C28: the k-th tools/list request of a discovery (k - 1 pages received
\* before it) has the integer id k; it carries no cursor when k = 1 and
\* otherwise the nextCursor of the page before it, which was truthy; a page
\* whose nextCursor is absent or falsy is the last one requested.
C28_PageIdsAndCursors ==
  /\ [][dpc = "list" =>
          /\ lastReq'.method = "tools/list"
          /\ lastReq'.id = "int"
          /\ lastReq'.num = Len(pageLog) + 1
          /\ lastReq'.cursor = IF Len(pageLog) = 0 THEN None ELSE lastDoc.nextCursor]_vars
  /\ []((dpc = "list" /\ Len(pageLog) > 0) => Truthy(lastDoc.nextCursor))
  /\ [][(dpc = "list" /\ ~Truthy(lastDoc'.nextCursor)) => dpc' # "list"]_vars

C28_Witness ==
  /\ dpc = "register"
  /\ Len(pageLog) = 2
  /\ lastReq.method = "tools/list"
  /\ lastReq.num = 2
  /\ lastReq.cursor = "c1"
  /\ lastDoc.nextCursor = Empty
  /\ disc[srvIdx].status = "ok"

\* ---------------------------------------------------------------- C29
\* C29: what discovery returned and what was registered from it never
\* change once calls are made; every tools/call request carries the session
\* id discovery returned for the tool's server, also after a tools/call
\* response that carried another session id.
C29_SessionFixedAfterDiscovery ==
  /\ [][dpc = "done" => (registered' = registered /\ disc' = disc)]_vars
  /\ [](\A c \in CallIds :
          calls[c].req.sent =>
            calls[c].req.session = SessionHeader(disc[Binding(c).srv].sessionId))

C29_Witness ==
  \E c \in CallIds :
    /\ calls[c].pc = "fetch"
    /\ calls[c].heard = "s9"
    /\ calls[c].req.sent
    /\ calls[c].req.session = "s1"
    /\ disc[Binding(c).srv].sessionId = "s1"

\* ---------------------------------------------------------------- C30
\* C30: once the probe has succeeded no step runs it again; a probe that
\* fails ends that discovery call with the missing-curl diagnostic, and no
\* request is sent for that server.
C30_ProbeCachedAndFailsFast ==
  /\ [][curlChecked => (probes' = probes /\ curlChecked')]_vars
  /\ [][(dpc = "start" /\ ~curlChecked') =>
          /\ probes' = probes + 1
          /\ disc'[srvIdx] = FailedResult(CurlMissingError)
          /\ lastReq' = lastReq
          /\ srvIdx' = srvIdx + 1]_vars
  /\ [](\A n \in 1..Len(servers) :
          (disc[n].status = "failed" /\ disc[n].err = CurlMissingError) =>
            lastReq.srv # n)

C30_Witness ==
  /\ curlChecked
  /\ probes = 1
  /\ disc[1].status = "ok"
  /\ srvIdx = 2
  /\ dpc = "list"
  /\ lastReq.srv = 2
  /\ lastReq.method = "notifications/initialized"

\* ---------------------------------------------------------------- C31
\* C31: once the probe has been run for the first discovery call, whatever
\* its outcome, no later discovery call runs it again.
C31_ProbeRunsOncePerProcess ==
  [][probes >= 1 => probes' = probes]_vars

\* ---------------------------------------------------------------- C32
\* the line is a bare data line, without a colon
BareData(input, i) == LineShapes[input[i]].text = <<"d", "a", "t", "a">>

\* the line is a data: line with nothing, or only whitespace, after the colon
EmptyData(input, i) ==
  KindAt(input, i) = "data" /\ LineShapes[input[i]].payload = <<>>

\* C32: a bare data line with no colon adds no element and does not set the
\* in-message flag; a data: line whose remainder is empty or only whitespace
\* adds one empty element, so the joined result has one line per data: line,
\* the empty ones included.
C32_BareDataIgnoredEmptyDataKept ==
  (Decoded /\ ~BraceFirst(sseInput)) =>
    LET ds == DataLinesAfter(sseInput, LastMessage(sseInput))
    IN  /\ sseFlag = (\E i \in 1..Len(sseInput) :
                        KindAt(sseInput, i) \in {"message", "data"})
        /\ (\A i \in 1..Len(sseInput) : BareData(sseInput, i)) => ~sseFlag
        /\ ds # <<>> =>
              /\ Len(Split(sseOut)) = Len(ds)
              /\ \A n \in 1..Len(ds) :
                    EmptyData(sseInput, ds[n]) => Split(sseOut)[n] = <<>>

C32_Witness ==
  /\ Decoded
  /\ Len(sseInput) = 4
  /\ BareData(sseInput, 1)
  /\ EmptyData(sseInput, 2)
  /\ LineShapes[sseInput[2]].text # DataPrefix
  /\ BareData(sseInput, 3)
  /\ LineShapes[sseInput[4]].payload = <<"a">>
  /\ sseOut = <<"\n", "a">>

\* ---------------------------------------------------------------- C33
\* C33: a record with no expiry time is never reported expired, whatever the
\* clock; a record with expiry time e is reported expired exactly when the
\* clock has reached e - 60 seconds.
C33_ExpiredFromSixtySecondsBefore ==
  \A c \in CallIds :
    (Started(c) /\ PerUser(c) /\ calls[c].seenRec.found) =>
      /\ ~calls[c].seenRec.hasExpiry => calls[c].res.error.kind # "expired"
      /\ calls[c].seenRec.hasExpiry =>
            (calls[c].res.error.kind = "expired"
               <=> calls[c].seenNow >= calls[c].seenRec.expires_at - 60)

C33_Witness ==
  \E c \in CallIds :
    /\ Started(c) /\ PerUser(c) /\ calls[c].seenRec.found
    /\ calls[c].seenRec.hasExpiry
    /\ calls[c].seenNow = MaxNow
    /\ calls[c].seenRec.expires_at = MaxNow + 60
    /\ Refused(c, "expired")

\* ---------------------------------------------------------------- C34
\* C34: an initialize request that fails in transport ends the discovery
\* with the wrapped failure, the initialize request being the last one sent;
\* the notification and tools/list are sent only after an initialize
\* response has come back.
C34_InitializeTransportFailureIsFatal ==
  /\ [][(dpc = "init" /\ dpc' # "notify") =>
          /\ disc'[srvIdx] = FailedResult(WrappedError(Server, "transport", None))
          /\ lastReq'.method = "initialize"
          /\ srvIdx' = srvIdx + 1
          /\ dpc' \in {"start", "done"}]_vars
  /\ [](dpc \in {"notify", "list"} => initDoc.json # "none")
  /\ [][lastReq'.method \in {"notifications/initialized", "tools/list"} =>
          (dpc \in {"notify", "list"} \/ lastReq' = lastReq)]_vars

C34_Witness ==
  /\ dpc = "done"
  /\ disc[1].status = "failed"
  /\ disc[1].err.kind = "transport"
  /\ lastReq.method = "initialize"
  /\ notified = NotSent
  /\ pageLog = <<>>

\* ---------------------------------------------------------------- C35
\* the page did not come back, did not parse, carries a truthy error or has
\* no tools array
BadPage(doc) ==
  \/ doc.json \in {"none", "unparseable", "null"}
  \/ ErrorTruthy(doc.error)
  \/ doc.toolsKind # "array"

\* C35: a tools/list page that fails, the first or a later one, ends the
\* discovery with a failure that carries no tool and no session: what the
\* earlier pages gave is dropped, and nothing of a failed server is ever
\* registered.
C35_DiscoveryIsAllOrNothing ==
  /\ [][(dpc = "list" /\ BadPage(lastDoc')) =>
          /\ disc'[srvIdx].status = "failed"
          /\ disc'[srvIdx].tools = <<>>
          /\ disc'[srvIdx].sessionId = None
          /\ allTools' = <<>>
          /\ registered' = registered
          /\ dpc' \in {"start", "done"}]_vars
  /\ [](\A i \in 1..Len(registered) : disc[registered[i].srv].status = "ok")
  /\ [][\A n \in 1..Len(servers) :
          disc[n].status = "failed" => disc'[n] = disc[n]]_vars

C35_Witness ==
  /\ dpc = "done"
  /\ disc[1].status = "failed"
  /\ lastReq.method = "tools/list"
  /\ lastReq.num = 2
  /\ lastReq.cursor = "c1"
  /\ lastDoc.toolsKind = "nonarray"
  /\ registered = <<>>

\* ---------------------------------------------------------------- C36
\* C36: when every request returns or fails and the server ends its catalog
\* (a page without a truthy nextCursor, or a failing page), the discovery
\* call ends with a session or with a failure; every loop iteration sends
\* one tools/list request, numbered one more than the pages received before
\* it, and at the end the requests sent are as many as the pages received.
C36_DiscoveryTerminates ==
  /\ (srvIdx = 1 /\ dpc = "start") ~> (disc[1].status \in {"ok", "failed"})
  /\ [][dpc = "list" =>
          /\ lastReq'.method = "tools/list"
          /\ lastReq'.num = Len(pageLog) + 1
          /\ dpc' = "list" => Len(pageLog') = Len(pageLog) + 1
          /\ dpc' = "register" =>
                (disc'[1].status = "ok" /\ Len(pageLog') = lastReq'.num)]_vars

C36_Witness ==
  /\ dpc = "register"
  /\ disc[1].status = "ok"
  /\ Len(pageLog) = MaxPages
  /\ lastReq.num = MaxPages
  /\ ~Truthy(lastDoc.nextCursor)

\* ---------------------------------------------------------------- C37
\* C37: whatever calls of other identities and whatever store updates are
\* interleaved, the bearer token sent on a call bound to user U and service S
\* is the access token of the record the store held under (U, S) when the
\* call resolved it, or the server's static token; it is never a token
\* issued to another user or for another service.
C37_CredentialsAreIsolated ==
  \A c \in CallIds :
    (Started(c) /\ calls[c].req.sent) =>
      /\ calls[c].req.auth \in
           {None, BoundServer(c).token} \cup
           (IF Truthy(calls[c].userId) /\ storeOk
              THEN {OwnToken(calls[c].userId, BoundServer(c).prefix)} ELSE {})
      /\ \A u \in Users, svc \in Prefixes :
           calls[c].req.auth = OwnToken(u, svc) =>
             /\ u = calls[c].userId
             /\ svc = BoundServer(c).prefix
             /\ calls[c].seenRec.found

C37_Witness ==
  \E c, d \in CallIds :
    /\ c # d
    /\ calls[c].pc = "fetch" /\ calls[d].pc = "fetch"
    /\ calls[c].userId = "u1" /\ calls[d].userId = "u2"
    /\ calls[c].req.auth = OwnToken("u1", BoundServer(c).prefix)
    /\ calls[d].req.auth = OwnToken("u2", BoundServer(d).prefix)
    /\ calls[c].req.auth # calls[d].req.auth
    /\ tokenStore[<<"u1", BoundServer(c).prefix>>].found
    /\ tokenStore[<<"u2", BoundServer(d).prefix>>].found

\* ---------------------------------------------------------------- C38
\* the contexts that tell the model Gmail and Calendar can be used
AvailableContexts == {"all services active", "all services (status not verified)"}

\* C38: for a Telegram user whose billing status was obtained, beforeToolCall
\* lets a gated call through exactly when the context buildServiceContext
\* gives for that status says Gmail and Calendar are available; an unknown
\* tier is base tier for both.
C38_HooksAgreeOnEveryStatus ==
  \A h \in HookIds :
    ( /\ hooks[h].pc = "done"
      /\ hooks[h].hook = "beforeToolCall"
      /\ hooks[h].label # <<None>>
      /\ Truthy(hooks[h].userId)
      /\ hooks[h].result.reachable ) =>
        (hooks[h].verdict = Void
           <=> buildServiceContext(hooks[h].result.status, FALSE) \in AvailableContexts)

\* ---------------------------------------------------------------- C39
\* the cache holds an entry for the user that is younger than its TTL: five
\* minutes for a status the API gave, one minute for the not-found sentinel
YoungEntry(c, user, t) ==
  \E i \in 1..Len(c) :
    /\ c[i].key = user
    /\ t - c[i].fetchedAt < (IF c[i].sentinel THEN 60 * 1000 ELSE 5 * 60 * 1000)

\* getStatus is entered by the hook in slot h in this step
LookupStarts(h) ==
  /\ hooks[h].pc \in {"idle", "done"}
  /\ hooks'[h] # hooks[h]
  /\ Truthy(hooks'[h].userId)

\* C39: getStatus answers from the cache, without a request, only when the
\* user's entry is younger than its TTL, and then with that entry's status;
\* otherwise the entry is deleted and the API is asked; a lookup that ends
\* unreachable leaves the cache as it was.
C39_CacheNeverServesStale ==
  /\ [][\A h \in HookIds : LookupStarts(h) =>
          IF YoungEntry(cache, hooks'[h].userId, dateNow)
            THEN /\ hooks'[h].pc = "done"
                 /\ hooks'[h].answer = "cache"
                 /\ ~hooks'[h].asked
                 /\ \E i \in 1..Len(cache) :
                      /\ cache[i].key = hooks'[h].userId
                      /\ hooks'[h].result =
                           ReachableResult(cache[i].status, cache[i].sentinel)
                 /\ cache' = cache
            ELSE /\ hooks'[h].pc = "fetch"
                 /\ hooks'[h].asked
                 /\ \A i \in 1..Len(cache') : cache'[i].key # hooks'[h].userId]_vars
  /\ [][\A h \in HookIds :
          (hooks[h].pc \in {"fetch", "json"} /\ hooks'[h].pc = "done"
             /\ ~hooks'[h].result.reachable) => cache' = cache]_vars

C39_Witness ==
  \E h \in HookIds :
    /\ hooks[h].pc = "done"
    /\ hooks[h].answer = "cache"
    /\ ~hooks[h].asked
    /\ hooks[h].userId = "u1"
    /\ Len(cache) = 1
    /\ cache[1].key = "u1"
    /\ ~cache[1].sentinel
    /\ dateNow - cache[1].fetchedAt = CACHE_TTL_MS - NEGATIVE_CACHE_TTL_MS

\* ---------------------------------------------------------------- C40
\* the entry has reached its TTL at time t
Expired(e, t) == t - e.fetchedAt >= (IF e.sentinel THEN 60 * 1000 ELSE 5 * 60 * 1000)

\* the entries of c that are not expired at time t, in insertion order
Unexpired(c, t) == SelectSeq(c, LAMBDA e : ~Expired(e, t))

\* the keys of a cache, in insertion order
KeysOf(c) == [i \in 1..Len(c) |-> c[i].key]

\* the keys with the key of user put where a Map puts it: where it was, or
\* at the end
KeysWith(keys, user) ==
  IF \E i \in 1..Len(keys) : keys[i] = user THEN keys ELSE Append(keys, user)

\* the lookup of slot h ends in this step with an insertion
Inserts(h) ==
  /\ hooks[h].pc \in {"fetch", "json"}
  /\ hooks'[h].pc = "done"
  /\ hooks'[h].answer \in {"404", "valid"}

\* C40: the cache never holds more than 1000 entries; an insertion that
\* finds 1000 entries first removes the expired ones and, if 1000 are still
\* left, the one inserted first and no other; an insertion that finds fewer
\* removes nothing.
C40_CacheIsBounded ==
  /\ [](Len(cache) <= 1000)
  /\ [][\A h \in HookIds : Inserts(h) =>
          LET left == Unexpired(cache, dateNow)
              kept == IF Len(cache) < 1000 THEN cache
                      ELSE IF Len(left) >= 1000 THEN Tail(left)
                      ELSE left
          IN  /\ KeysOf(cache') = KeysWith(KeysOf(kept), hooks[h].userId)
              /\ SelectSeq(cache', LAMBDA e : e.key # hooks[h].userId)
                   = SelectSeq(kept, LAMBDA e : e.key # hooks[h].userId)]_vars

C40_Witness ==
  /\ Len(cache) = 1000
  /\ cache[1].key = "2"
  /\ cache[1].sentinel
  /\ cache[999].key = "1000"
  /\ cache[1000].key = "u1"
  /\ dateNow = 0

====
